---- MODULE Spec2Model ----
(***************************************************************************)
(* Transport core of the Discord bot client (src/src/gateway.rs): the      *)
(* gateway driver, its heartbeat task, the outbound send budget and the    *)
(* two bounded queues shared with the consumer.                            *)
(*                                                                         *)
(* Time is kept relative.  An Instant of the code is represented by its    *)
(* age (milliseconds since it was taken); a pending sleep by the           *)
(* milliseconds left.  Every step that lets time pass ages all instants    *)
(* and shortens all pending sleeps by the same amount, so every            *)
(* comparison the code makes (now - t < window, expires_at - now) has the  *)
(* value it has with absolute instants.  Ages stop growing at the send     *)
(* window: the code never distinguishes two instants that are both older.  *)
(***************************************************************************)
EXTENDS Integers, Sequences, FiniteSets, TLC

\* ------------------------------------------------------------------------
\* Program constants
\* ------------------------------------------------------------------------
SEND_BUDGET_MAX == 120
SEND_BUDGET_WINDOW == 60000
MAX_RECONNECT_ATTEMPTS == 8
\* variant of EVENT_QUEUE_CAPACITY with room for one event more
EventQueueCapacityPlusOne == 256 + 1
EVENT_QUEUE_CAPACITY == 256
SEND_QUEUE_CAPACITY == 64
HELLO_TIMEOUT == 30000

\* ------------------------------------------------------------------------
\* Bounds of the model
\* ------------------------------------------------------------------------
\* successful dials (connections established) in one run
MaxConnections == 2
\* inbound text frames parsed in one run
MaxFrames == 3
\* payloads the consumer submits in one run
MaxPayloads == 2
\* periodic heartbeat ticks in one run
MaxHeartbeats == 2
\* payloads the consumer submits in a run that exercises the send budget
MaxBurst == 120
\* inbound text frames parsed in a run that fills the event queue
MaxFlood == 258
\* text frames skipped in a run that keeps them
MaxIgnored == 2

\* ------------------------------------------------------------------------
\* Option<T>: None is the empty set, Some(x) the singleton
\* ------------------------------------------------------------------------
None == {}
Some(x) == {x}
IsSome(o) == o # {}
Unwrap(o) == CHOOSE x \in o : TRUE

Min(a, b) == IF a <= b THEN a ELSE b

\* ------------------------------------------------------------------------
\* Input samples
\* ------------------------------------------------------------------------
\* rand::random::<f64>() in [0, 1), in thousandths
RandSamples == {0, 999}
\* heartbeat_interval values a HELLO may carry (ms)
HelloIntervals == {41250}
SessionIds == {"S"}
\* a URL: the text before its query string and the parameters of the query
Url(base, query) == [base |-> base, query |-> query]
ResumeUrls == {Url("wss://rx.example/", <<"v=10">>), Url("wss://resume.example", <<>>)}
SequenceNumbers == {1, 2}

\* ------------------------------------------------------------------------
\* SendRateLimiter: timestamps is the Vec<Instant>, as ages, in push order
\* ------------------------------------------------------------------------
InWindow(ts) == {i \in DOMAIN ts : ts[i] < SEND_BUDGET_WINDOW}

OldestAge(ts) == CHOOSE a \in {ts[i] : i \in InWindow(ts)} : \A i \in InWindow(ts) : ts[i] <= a

\* SendRateLimiter::delay
Delay(ts) ==
    IF Len(ts) < SEND_BUDGET_MAX THEN None
    ELSE IF Cardinality(InWindow(ts)) < SEND_BUDGET_MAX THEN None
    ELSE IF InWindow(ts) = {} THEN None
    ELSE IF SEND_BUDGET_WINDOW - OldestAge(ts) > 0
         THEN Some(SEND_BUDGET_WINDOW - OldestAge(ts))
         ELSE None

\* SendRateLimiter::record
Record(ts) == Append(SelectSeq(ts, LAMBDA a : a < SEND_BUDGET_WINDOW), 0)

\* the instants of ts after d more milliseconds
Aged(ts, d) == [i \in DOMAIN ts |-> Min(ts[i] + d, SEND_BUDGET_WINDOW)]

\* ------------------------------------------------------------------------
\* backoff_delay(attempt), r the random draw in thousandths
\* ------------------------------------------------------------------------
Pow2(n) == IF n = 0 THEN 1 ELSE IF n = 1 THEN 2 ELSE IF n = 2 THEN 4
           ELSE IF n = 3 THEN 8 ELSE IF n = 4 THEN 16 ELSE IF n = 5 THEN 32 ELSE 64

\* variant of backoff_delay without the cap
backoff_delay_uncapped(attempt, r) ==
    ((r * 500 + 750000) * Pow2(Min(attempt, 6))) \div 1000

backoff_delay(attempt, r) ==
    \* (r/1000 * 0.5 + 0.75) * base_ms, with base_ms = 1000 * 2^min(attempt, 6),
    \* capped at 60 000 and truncated to whole milliseconds
    LET jitter == ((r * 500 + 750000) * Pow2(Min(attempt, 6))) \div 1000
    IN  Min(jitter, 60000)

\* ------------------------------------------------------------------------
\* Frames written to the gateway
\* ------------------------------------------------------------------------
Frame(kind, op, sid, seq, id) ==
    [kind |-> kind, op |-> op, session_id |-> sid, seq |-> seq, id |-> id]

IdentifyFrame == Frame("text", 2, None, None, 0)
ResumeFrame(sid, seq) == Frame("text", 6, sid, seq, 0)
\* variant of HeartbeatFrame that carries d = null whatever the sequence
HeartbeatFrameNull(seq) == Frame("text", 1, None, None, 0)
HeartbeatFrame(seq) == Frame("text", 1, None, seq, 0)
\* a consumer payload: opaque JSON, told apart by the order of submission
PayloadFrame(id) == Frame("text", 3, None, None, id)
NoFrame == Frame("none", 0, None, None, 0)

\* ------------------------------------------------------------------------
\* Inbound gateway payloads (GatewayPayload {op, d, s, t}) and what the
\* WebSocket read half can yield
\* ------------------------------------------------------------------------
\* d: absent, a bool, a well-formed READY body, or some other JSON value
NoData == [present |-> FALSE, bool |-> None, ready |-> None]
BoolData(b) == [present |-> TRUE, bool |-> Some(b), ready |-> None]
ReadyData(sid, url) ==
    [present |-> TRUE, bool |-> None,
     ready |-> Some([session_id |-> sid, resume_gateway_url |-> url])]
OtherData == [present |-> TRUE, bool |-> None, ready |-> None]

Payload(op, t, s, d) == [op |-> op, t |-> t, s |-> s, d |-> d]

DispatchPayloads ==
    {Payload(0, Some("READY"), s, ReadyData(sid, url)) :
        s \in {Some(1)}, sid \in SessionIds, url \in ResumeUrls}
    \cup {Payload(0, Some("READY"), None, OtherData)}
    \cup {Payload(0, Some("MESSAGE_CREATE"), Some(n), OtherData) : n \in SequenceNumbers}
    \cup {Payload(0, Some("TYPING_START"), None, OtherData)}

ControlPayloads ==
    {Payload(1, None, None, NoData),
     Payload(7, None, None, NoData),
     Payload(7, None, Some(2), NoData),
     Payload(9, None, None, BoolData(TRUE)),
     Payload(9, None, None, BoolData(FALSE)),
     Payload(9, None, None, NoData),
     Payload(11, None, None, NoData)}

Payloads == DispatchPayloads \cup ControlPayloads

\* ------------------------------------------------------------------------
\* Text frames as they arrive, and serde_json::from_str::<GatewayPayload>
\* ------------------------------------------------------------------------
\* a member of the JSON object: absent, null, a number or a string
Absent == [is |-> "absent", n |-> 0]
Null == [is |-> "null", n |-> 0]
Num(n) == [is |-> "number", n |-> n]
Str == [is |-> "string", n |-> 0]

\* json: whether the text is JSON at all; op and s as they stand in the
\* object; t and d as GatewayPayload would hold them
Text(json, op, s, t, d) == [json |-> json, op |-> op, s |-> s, t |-> t, d |-> d]

TextSamples ==
    {Text(FALSE, Absent, Absent, None, NoData),
     Text(TRUE, Absent, Num(2), Some("MESSAGE_CREATE"), OtherData),
     Text(TRUE, Str, Num(2), Some("MESSAGE_CREATE"), OtherData),
     Text(TRUE, Num(300), Num(2), None, NoData),
     Text(TRUE, Num(0), Str, Some("MESSAGE_CREATE"), OtherData),
     Text(TRUE, Num(0), Num(1), Some("MESSAGE_CREATE"), OtherData),
     Text(TRUE, Num(0), Null, Some("TYPING_START"), OtherData),
     Text(TRUE, Num(11), Absent, None, NoData),
     Text(TRUE, Num(42), Absent, None, OtherData)}

\* variant of from_str in which op defaults to 0 when it is missing
from_str_default_op(text) ==
    IF ~text.json THEN None
    ELSE IF text.op.is \notin {"number", "absent"} \/ text.op.n \notin 0..255 THEN None
    ELSE IF text.s.is = "string" THEN None
    ELSE Some(Payload(text.op.n, text.t, IF text.s.is = "number" THEN Some(text.s.n) ELSE None,
                      text.d))

\* op must be there and fit a u8; s is a u64, null or absent
from_str(text) ==
    IF ~text.json THEN None
    ELSE IF text.op.is # "number" \/ text.op.n \notin 0..255 THEN None
    ELSE IF text.s.is = "string" THEN None
    ELSE Some(Payload(text.op.n, text.t, IF text.s.is = "number" THEN Some(text.s.n) ELSE None,
                      text.d))

FatalCloseCodes == {4004, 4010, 4011, 4012, 4013, 4014}
ReidentifyCloseCodes == {4007, 4009}
ResumableCloseCodes == {1000, 1001, 1006, 4000, 4001, 4002, 4003, 4005, 4008}
\* the code of a close frame: Some(code), or None for a close frame without one
CloseCodes ==
    {Some(c) : c \in FatalCloseCodes \cup ReidentifyCloseCodes \cup ResumableCloseCodes}
    \cup {None}

\* ------------------------------------------------------------------------
\* GatewayEvent::from_payload (src/src/events.rs)
\* ------------------------------------------------------------------------
\* id and s are not part of the GatewayEvent: id is the position of the frame
\* among the parsed frames and s its sequence number when it is a dispatch;
\* read_loop fills them in and they serve only to state the properties
Event(kind, resumable, ready) ==
    [id |-> 0, s |-> None, kind |-> kind, resumable |-> resumable, ready |-> ready]

TypedDispatchNames == {"GUILD_CREATE", "MESSAGE_CREATE", "PRESENCE_UPDATE", "INTERACTION_CREATE"}

parse_dispatch(t, d) ==
    IF t = None THEN Event("Unknown", FALSE, None)
    ELSE IF ~d.present THEN Event("Unknown", FALSE, None)
    ELSE IF Unwrap(t) = "READY"
         THEN IF IsSome(d.ready) THEN Event("Ready", FALSE, d.ready)
              ELSE Event("Unknown", FALSE, None)
    ELSE IF Unwrap(t) \in TypedDispatchNames THEN Event("Dispatch", FALSE, None)
    ELSE Event("Unknown", FALSE, None)

from_payload(p) ==
    IF p.op = 0 THEN parse_dispatch(p.t, p.d)
    ELSE IF p.op = 1 THEN Event("HeartbeatRequest", FALSE, None)
    ELSE IF p.op = 7 THEN Event("Reconnect", FALSE, None)
    ELSE IF p.op = 9
         THEN Event("InvalidSession", IF IsSome(p.d.bool) THEN Unwrap(p.d.bool) ELSE FALSE, None)
    ELSE IF p.op = 11 THEN Event("HeartbeatAck", FALSE, None)
    ELSE Event("Unknown", FALSE, None)

NoEvent == Event("None", FALSE, None)

\* ------------------------------------------------------------------------
\* The REST client: rate-limit tracker (http.rs)
\* ------------------------------------------------------------------------
\* Instants of the limiter are kept as the milliseconds left until they are
\* reached, 0 once they are past; header values in seconds are milliseconds.
max_retries == 5
\* the cap of a pre-flight or 429 wait, Duration::from_secs(60)
MAX_WAIT == 60000
\* what update assumes when the response has no x-ratelimit-reset-after
DEFAULT_RESET_AFTER == 1000
\* what request assumes on a 429 without x-ratelimit-reset-after
DEFAULT_RETRY_AFTER == 1000

\* callers sharing one client, and calls begun in one run
Callers == {"a", "b"}
MaxCalls == 2

Routes == {"POST /channels/100/messages", "GET /guilds/7"}
BucketIds == {"abc"}
Bodies == {"{\"id\":\"1\"}", "{\"code\":0}"}

\* StatusCode of the HTTP library
Statuses == {"Ok", "NotFound", "InternalError", "RateLimitExceeded"}

is_ok(status) == status \in {"Ok", "Created"}

\* variant of status_to_u16 that knows no status
status_to_u16_unknown(status) == 0

\* the match on the status; any other variant of the library gives 0
status_to_u16(status) ==
    CASE status = "Ok" -> 200
      [] status = "Created" -> 201
      [] status = "NotFound" -> 404
      [] status = "RateLimitExceeded" -> 429
      [] status = "InternalError" -> 500
      [] OTHER -> 0

\* the headers of a response that matter here, as the server sent them
Headers(remaining, reset_after, bucket, global, retry_after) ==
    [remaining |-> remaining, reset_after |-> reset_after, bucket |-> bucket,
     global |-> global, retry_after |-> retry_after]

HeaderSamples ==
    {Headers(None, None, None, None, None),
     Headers(Some(4), Some(2000), Some("abc"), None, None),
     Headers(Some(0), Some(2000), Some("abc"), None, Some(2000)),
     Headers(Some(0), Some(90000), Some("abc"), None, Some(90000)),
     Headers(None, None, Some("abc"), None, None),
     Headers(Some(0), Some(2000), None, None, None),
     Headers(None, Some(2000), None, Some("true"), Some(2000)),
     Headers(None, None, None, Some("true"), Some(2000)),
     Headers(None, Some(90000), None, Some("true"), Some(90000)),
     Headers(None, Some(2000), None, Some("false"), None)}

\* body_ok: whether the body can be read to its end
Response(status, headers, body, body_ok) ==
    [status |-> status, headers |-> headers, body |-> body, body_ok |-> body_ok]

Responses ==
    {Response(s, h, b, k) : s \in Statuses, h \in HeaderSamples, b \in Bodies, k \in BOOLEAN}

\* RateLimitInfo, without reset_at which nothing reads
parse_rate_limit_headers(h) ==
    [remaining |-> h.remaining,
     reset_after |-> h.reset_after,
     bucket |-> h.bucket,
     is_global |-> h.global = Some("true")]

BucketState(remaining, resets_at) == [remaining |-> remaining, resets_at |-> resets_at]

\* RateLimiter::new
NewLimiter ==
    [route_buckets |-> [r \in Routes |-> None],
     buckets |-> [b \in BucketIds |-> None],
     global_until |-> None]

\* RateLimiter::delay_for
delay_for(l, route_key) ==
    IF l.global_until # None /\ Unwrap(l.global_until) > 0
    THEN l.global_until
    ELSE IF l.route_buckets[route_key] = None
    THEN None
    ELSE IF l.buckets[Unwrap(l.route_buckets[route_key])] = None
    THEN None
    ELSE LET state == Unwrap(l.buckets[Unwrap(l.route_buckets[route_key])]) IN
         IF state.remaining = 0 /\ state.resets_at > 0
         THEN Some(state.resets_at)
         ELSE None

\* RateLimiter::update
update(l, route_key, info) ==
    LET g == IF info.is_global /\ info.reset_after # None
             THEN info.reset_after
             ELSE l.global_until
    IN  IF info.bucket = None
        THEN [l EXCEPT !.global_until = g]
        ELSE [route_buckets |-> [l.route_buckets EXCEPT ![route_key] = info.bucket],
              buckets |-> [l.buckets EXCEPT ![Unwrap(info.bucket)] =
                              Some(BucketState(
                                  IF info.remaining = None THEN 1 ELSE Unwrap(info.remaining),
                                  IF info.reset_after = None
                                  THEN DEFAULT_RESET_AFTER
                                  ELSE Unwrap(info.reset_after)))],
              global_until |-> g]

\* an Instant of the limiter after d milliseconds
InstantAfter(t, d) == IF t > d THEN t - d ELSE 0

\* variant of LimiterAfter that forgets a bucket once its reset has passed
LimiterAfterExpiring(l, d) ==
    [route_buckets |-> l.route_buckets,
     buckets |-> [b \in BucketIds |->
                     IF l.buckets[b] = None
                     THEN None
                     ELSE IF Unwrap(l.buckets[b]).resets_at <= d
                     THEN None
                     ELSE Some(BucketState(Unwrap(l.buckets[b]).remaining,
                                           Unwrap(l.buckets[b]).resets_at - d))],
     global_until |-> IF l.global_until = None
                      THEN None
                      ELSE IF Unwrap(l.global_until) > d
                      THEN Some(Unwrap(l.global_until) - d)
                      ELSE Some(0)]

\* the limiter after d milliseconds: its maps and counts are as they were,
\* and each stored Instant is d milliseconds nearer (or in the past)
LimiterAfter(l, d) ==
    [route_buckets |-> l.route_buckets,
     buckets |-> [b \in BucketIds |->
                     IF l.buckets[b] = None
                     THEN None
                     ELSE Some(BucketState(Unwrap(l.buckets[b]).remaining,
                                           InstantAfter(Unwrap(l.buckets[b]).resets_at, d)))],
     global_until |-> IF l.global_until = None
                      THEN None
                      ELSE Some(InstantAfter(Unwrap(l.global_until), d))]

\* what a call returns
NoResult == [kind |-> "None", status |-> 0, body |-> "", route |-> ""]
OkResult(body) == [kind |-> "Ok", status |-> 0, body |-> body, route |-> ""]
ApiError(status, body, route) == [kind |-> "Api", status |-> status, body |-> body, route |-> route]
TransportError == [kind |-> "Transport", status |-> 0, body |-> "", route |-> ""]
SerdeError == [kind |-> "Serde", status |-> 0, body |-> "", route |-> ""]

\* a caller's call: which method, on which route, its attempt (the loop
\* variable of request), the sleep it is in, the requests it has issued
Call(pc, kind, route, attempt, sleep_ms, issued, result) ==
    [pc |-> pc, kind |-> kind, route |-> route, attempt |-> attempt, sleep |-> sleep_ms,
     issued |-> issued, result |-> result]

NoCall == Call("idle", "none", "", 0, 0, 0, NoResult)

\* ------------------------------------------------------------------------
\* State
\* ------------------------------------------------------------------------
VARIABLES
    \* gateway_driver: where the task stands, and its locals
    pc,                 \* "connect" | "hello" | "identify" | "handshake" | "running" | "payload"
                        \* | "event" | "hb_reply" | "forward" | "invalid_wait" | "cleanup"
                        \* | "backoff" | "done"
    stage,              \* inside rate_limited_send: "none" | "gate" | "sleep" | "write"
    sleep,              \* milliseconds left of the driver's pending tokio::time::sleep
    out,                \* the payload handed to rate_limited_send
    heartbeat_interval, \* from HELLO
    reconnect_attempts,
    disconnect_reason,  \* what read_loop returned
    event,              \* the event read_loop is handling
    \* SessionState
    session_id,
    resume_gateway_url,
    sequence,
    \* SendRateLimiter of the current connection
    timestamps,
    \* the mpsc channels of connect()
    event_q,
    rx_closed,
    send_q,
    \* the heartbeat task of the current connection
    hb_pc,              \* "off" | "first" | "tick" | "gate" | "sleep" | "write"
    hb_timer,           \* milliseconds to the end of first_delay, then to the next interval tick
    hb_sleep,           \* milliseconds left of the task's sleep inside rate_limited_send
    hb_seq,             \* the sequence the task read for its heartbeat
    \* history, kept for stating the properties
    wire,               \* frames written on the current connection, in order
    audit,              \* what this run keeps: "budget" wire_ages, "cadence" beats,
                        \* "attempts" attempts_failed, "frames" ignored
    wire_ages,          \* ages of the sends recorded, by any limiter, in the last SEND_BUDGET_WINDOW
    beats,              \* the heartbeats written on the connection: age, sender, lateness
    hb_age,             \* milliseconds since the heartbeat task of the connection was spawned
    recv_log,           \* ids of the parsed frames whose event is meant for the consumer
    delivered,          \* ids of the events the consumer has received
    submitted,          \* payloads accepted by the send queue so far
    written,            \* ids of the consumer payloads written to the gateway
    connections,        \* dials that succeeded
    dialed,             \* the URL given to the last connect_async
    dials_failed,       \* consecutive dials that failed
    attempts_failed,    \* consecutive attempts that ended before their handshake was written
    ignored,            \* for each text frame skipped, the frames parsed before it
    frames_read,        \* text frames parsed
    heartbeats,         \* interval ticks taken by heartbeat tasks
    fwd_max,            \* largest s among the dispatches forwarded since the session was last cleared
    \* the REST client (http.rs) and the calls made through it
    limiter,            \* the RateLimiter shared by the clones of the client
    calls,              \* per caller: where its call stands
    calls_started,      \* calls begun so far
    \* a helper applied on its own
    probe,              \* the helper, its arguments and, once applied, its result
    \* the mutexes and the code each task has yet to run around them
    owner,              \* per mutex: the task holding its guard, or None
    threads             \* per task: the steps ahead of it, and whether it is suspended

driver_vars == <<pc, stage, sleep, out, heartbeat_interval, reconnect_attempts,
                 disconnect_reason, event>>
session_vars == <<session_id, resume_gateway_url, sequence>>
channel_vars == <<event_q, rx_closed, send_q>>
hb_vars == <<hb_pc, hb_timer, hb_sleep, hb_seq>>
clock_vars == <<timestamps, audit, wire_ages, beats, hb_age>>
history_vars == <<wire, recv_log, delivered, submitted, written, connections, dialed,
                  dials_failed, attempts_failed, frames_read, ignored, heartbeats, fwd_max>>
gateway_vars == <<driver_vars, session_vars, channel_vars, hb_vars, clock_vars, history_vars>>
rest_vars == <<limiter, calls, calls_started>>
lock_vars == <<owner, threads>>
vars == <<gateway_vars, rest_vars, probe, lock_vars>>

\* connect() and the first lines of gateway_driver; a says whether the run
\* keeps wire_ages
Start(a) ==
    /\ pc = "connect"
    /\ stage = "none"
    /\ sleep = 0
    /\ out = NoFrame
    /\ heartbeat_interval = 0
    /\ reconnect_attempts = 0
    /\ disconnect_reason = "None"
    /\ event = NoEvent
    /\ session_id = None
    /\ resume_gateway_url = None
    /\ sequence = None
    /\ timestamps = <<>>
    /\ event_q = <<>>
    /\ rx_closed = FALSE
    /\ send_q = <<>>
    /\ hb_pc = "off"
    /\ hb_timer = 0
    /\ hb_sleep = 0
    /\ hb_seq = None
    /\ wire = <<>>
    /\ audit = a
    /\ beats = <<>>
    /\ hb_age = 0
    /\ wire_ages = <<>>
    /\ recv_log = <<>>
    /\ delivered = <<>>
    /\ submitted = 0
    /\ written = <<>>
    /\ connections = 0
    /\ dialed = None
    /\ dials_failed = 0
    /\ attempts_failed = 0
    /\ ignored = <<>>
    /\ frames_read = 0
    /\ heartbeats = 0
    /\ fwd_max = None
    /\ limiter = NewLimiter
    /\ calls = [c \in Callers |-> NoCall]
    /\ calls_started = 0

\* no helper under examination
NoProbe == [fn |-> "none", args |-> <<>>, out |-> <<>>]

\* the mutexes of gateway_driver (gateway.rs 202, 253, 254) and the limiter
\* of the REST client (http.rs 199)
Mutexes == {"session", "send_budget", "ws_write", "rate_limiter"}
\* the driver (with its read loop), the heartbeat task and a caller of the
\* REST client
Tasks == {"driver", "heartbeat", "caller"}

\* no code under examination: every mutex free, no task with steps ahead
Unlocked ==
    /\ owner = [m \in Mutexes |-> None]
    /\ threads = [t \in Tasks |-> [code |-> <<>>, at |-> "run"]]

Init == Start("none") /\ probe = NoProbe /\ Unlocked
InitAudited == Start("budget") /\ probe = NoProbe /\ Unlocked
InitCadence == Start("cadence") /\ probe = NoProbe /\ Unlocked
InitAttempts == Start("attempts") /\ probe = NoProbe /\ Unlocked
InitFrames == Start("frames") /\ probe = NoProbe /\ Unlocked

\* ------------------------------------------------------------------------
\* Passage of time
\* ------------------------------------------------------------------------
DriverSleeping == pc \in {"backoff", "invalid_wait"} \/ stage = "sleep"
HbWaiting == hb_pc \in {"first", "tick"}

\* d milliseconds may pass without a pending sleep being overslept
CanElapse(d) ==
    /\ DriverSleeping => sleep >= d
    /\ HbWaiting => hb_timer >= d
    /\ hb_pc = "sleep" => hb_sleep >= d

\* the ages of the recorded sends that are still inside the window after d ms
AgedRecent(ages, d) == SelectSeq(Aged(ages, d), LAMBDA a : a < SEND_BUDGET_WINDOW)

\* a heartbeat written by the task ("task") or by read_loop ("reply"), late
\* milliseconds after the interval tick it belongs to
Beat(by, late) == [age |-> 0, by |-> by, late |-> late]

\* the heartbeats kept, d milliseconds later
BeatsAfter(bs, d) == [i \in DOMAIN bs |-> [bs[i] EXCEPT !.age = @ + d]]

\* the heartbeats kept once b has been written
WithBeat(bs, b) == IF audit = "cadence" THEN Append(bs, b) ELSE bs

\* the instants after d milliseconds
Elapse(d) ==
    /\ timestamps' = Aged(timestamps, d)
    /\ wire_ages' = AgedRecent(wire_ages, d)
    /\ beats' = BeatsAfter(beats, d)
    /\ hb_age' = IF audit = "cadence" /\ hb_pc # "off" THEN hb_age + d ELSE hb_age
    /\ UNCHANGED audit

\* SendRateLimiter::record on the connection's limiter
RecordSend ==
    /\ timestamps' = Record(timestamps)
    /\ wire_ages' = IF audit = "budget" THEN Append(wire_ages, 0) ELSE wire_ages
    /\ UNCHANGED <<audit, beats, hb_age>>

\* record() for a heartbeat, and the write when the socket accepts it
RecordHeartbeat(ok, by, late) ==
    /\ timestamps' = Record(timestamps)
    /\ wire_ages' = IF audit = "budget" THEN Append(wire_ages, 0) ELSE wire_ages
    /\ beats' = IF ok THEN WithBeat(beats, Beat(by, late)) ELSE beats
    /\ UNCHANGED <<audit, hb_age>>

\* the connection's limiter is created, or dropped with the connection
ResetLimiter ==
    /\ timestamps' = <<>>
    /\ beats' = <<>>
    /\ hb_age' = 0
    /\ UNCHANGED <<audit, wire_ages>>

\* the other timers after d milliseconds
SleepAfter(d) == IF sleep > d THEN sleep - d ELSE 0
HbTimerAfter(d) == IF hb_timer > d THEN hb_timer - d ELSE 0
HbSleepAfter(d) == IF hb_sleep > d THEN hb_sleep - d ELSE 0

\* ------------------------------------------------------------------------
\* gateway_driver: connecting
\* ------------------------------------------------------------------------
\* variant of GiveUp that allows one more attempt
GiveUpLate(attempts) == attempts > MAX_RECONNECT_ATTEMPTS + 1

\* the test made after each increment of the counter that is followed by one
GiveUp(attempts) == attempts > MAX_RECONNECT_ATTEMPTS

DEFAULT_GATEWAY_URL == Url("wss://gateway.discord.gg/", <<"v=10", "encoding=json">>)

\* url.contains(text), for a text that is one parameter of the query
Contains(url, param) == \E i \in 1..Len(url.query) : url.query[i] = param

\* the version and encoding parameters are appended, after a '?' or a '&',
\* unless the URL contains "v=10"
WithQueryParams(url) ==
    IF Contains(url, "v=10")
    THEN url
    ELSE [url EXCEPT !.query = @ \o <<"v=10", "encoding=json">>]

\* variant of gateway_url that always dials the default gateway
gateway_url_default(resume) == DEFAULT_GATEWAY_URL

\* the URL of the next dial: the session's resume URL if there is one
gateway_url(resume) ==
    WithQueryParams(IF resume = None THEN DEFAULT_GATEWAY_URL ELSE Unwrap(resume))

\* variant of Connected that keeps the count
ConnectedKeepsCount(attempts) == attempts

\* the counter once connect_async has returned Ok
Connected(attempts) == 0

\* the attempts that ended before their handshake, this one included
AttemptFailed == IF audit = "attempts" THEN attempts_failed + 1 ELSE attempts_failed

\* connect_async answered: Ok resets the counter and builds the connection's
\* limiter, Err counts, gives up above the maximum, else backs off
Dial(ok, r) ==
    /\ pc = "connect"
    /\ dialed' = Some(gateway_url(resume_gateway_url))
    /\ IF ok
       THEN /\ connections < MaxConnections
            /\ reconnect_attempts' = Connected(reconnect_attempts)
            /\ ResetLimiter
            /\ pc' = "hello"
            /\ sleep' = 0
            /\ connections' = connections + 1
            /\ dials_failed' = 0
            /\ UNCHANGED attempts_failed
       ELSE /\ reconnect_attempts' = reconnect_attempts + 1
            /\ IF GiveUp(reconnect_attempts + 1)
               THEN pc' = "done" /\ sleep' = 0
               ELSE pc' = "backoff" /\ sleep' = backoff_delay(reconnect_attempts + 1, r)
            /\ dials_failed' = dials_failed + 1
            /\ attempts_failed' = AttemptFailed
            /\ UNCHANGED <<clock_vars, connections>>
    /\ UNCHANGED <<stage, out, heartbeat_interval, disconnect_reason, event, session_vars,
                   channel_vars, hb_vars, wire, recv_log, delivered, submitted, written,
                   frames_read, ignored, heartbeats, fwd_max>>
    /\ UNCHANGED <<rest_vars, probe, lock_vars>>

\* variant of HelloResults in which a first frame with another opcode is
\* taken for the HELLO
HelloResultsAnyOp ==
    {[ok |-> TRUE, interval |-> h, waited |-> w, why |-> y] :
        h \in HelloIntervals, w \in {0, HELLO_TIMEOUT - 1}, y \in {"hello", "wrong_op"}}
    \cup {[ok |-> FALSE, interval |-> 0, waited |-> HELLO_TIMEOUT, why |-> "timeout"]}
    \cup {[ok |-> FALSE, interval |-> 0, waited |-> 0, why |-> w] :
            w \in {"stream_end", "ws_error", "not_text", "bad_json", "no_interval"}}

\* what read_hello_from_stream can return, and how long it waited
HelloResults ==
    {[ok |-> TRUE, interval |-> h, waited |-> w, why |-> "hello"] :
        h \in HelloIntervals, w \in {0, HELLO_TIMEOUT - 1}}
    \cup {[ok |-> FALSE, interval |-> 0, waited |-> HELLO_TIMEOUT, why |-> "timeout"]}
    \cup {[ok |-> FALSE, interval |-> 0, waited |-> 0, why |-> w] :
            w \in {"stream_end", "ws_error", "not_text", "bad_json", "wrong_op", "no_interval"}}

\* step 1 of the driver; an Err counts and backs off (the connection and its
\* limiter are dropped)
ReadHello(h, r) ==
    /\ pc = "hello"
    /\ IF h.ok
       THEN /\ heartbeat_interval' = h.interval
            /\ pc' = "identify"
            /\ Elapse(h.waited)
            /\ UNCHANGED <<reconnect_attempts, sleep, attempts_failed>>
       ELSE /\ reconnect_attempts' = reconnect_attempts + 1
            /\ sleep' = backoff_delay(reconnect_attempts + 1, r)
            /\ pc' = "backoff"
            /\ ResetLimiter
            /\ attempts_failed' = AttemptFailed
            /\ UNCHANGED heartbeat_interval
    /\ UNCHANGED <<stage, out, disconnect_reason, event, session_vars, channel_vars,
                   hb_vars, wire, recv_log, delivered, submitted, written, connections,
                   dialed, dials_failed, frames_read, ignored, heartbeats, fwd_max>>
    /\ UNCHANGED <<rest_vars, probe, lock_vars>>

\* variant of should_resume for which either field is enough
should_resume_either == IsSome(session_id) \/ IsSome(sequence)

\* step 2 of the driver: RESUME when the session can be resumed, else IDENTIFY
should_resume == IsSome(session_id) /\ IsSome(sequence)

BuildHandshake ==
    /\ pc = "identify"
    /\ out' = IF should_resume THEN ResumeFrame(session_id, sequence) ELSE IdentifyFrame
    /\ pc' = "handshake"
    /\ stage' = "gate"
    /\ UNCHANGED <<sleep, heartbeat_interval, reconnect_attempts, disconnect_reason, event,
                   session_vars, channel_vars, hb_vars, clock_vars, history_vars>>
    /\ UNCHANGED <<rest_vars, probe, lock_vars>>

\* ------------------------------------------------------------------------
\* rate_limited_send, as called by the driver
\* ------------------------------------------------------------------------
\* the loop around SendRateLimiter::delay
Gate ==
    /\ stage = "gate"
    /\ IF Delay(timestamps) = None
       THEN stage' = "write" /\ sleep' = 0
       ELSE stage' = "sleep" /\ sleep' = Unwrap(Delay(timestamps))
    /\ UNCHANGED <<pc, out, heartbeat_interval, reconnect_attempts, disconnect_reason, event,
                   session_vars, channel_vars, hb_vars, clock_vars, history_vars>>
    /\ UNCHANGED <<rest_vars, probe, lock_vars>>

\* record(), then the write: the IDENTIFY or RESUME of step 2; on Ok the
\* heartbeat task is spawned and read_loop entered, on Err the attempt counts
WriteHandshake(ok, r, j) ==
    /\ pc = "handshake"
    /\ stage = "write"
    /\ stage' = "none"
    /\ out' = NoFrame
    /\ IF ok
       THEN /\ RecordSend
            /\ wire' = Append(wire, out)
            /\ pc' = "running"
            /\ disconnect_reason' = "None"
            /\ hb_pc' = "first"
            /\ hb_timer' = (heartbeat_interval * j) \div 1000
            /\ attempts_failed' = 0
            /\ UNCHANGED <<reconnect_attempts, sleep>>
       ELSE /\ timestamps' = <<>>
            /\ wire_ages' = IF audit = "budget" THEN Append(wire_ages, 0) ELSE wire_ages
            /\ UNCHANGED <<audit, beats, hb_age>>
            /\ reconnect_attempts' = reconnect_attempts + 1
            /\ sleep' = backoff_delay(reconnect_attempts + 1, r)
            /\ pc' = "backoff"
            /\ attempts_failed' = AttemptFailed
            /\ UNCHANGED <<wire, hb_pc, hb_timer, disconnect_reason>>
    /\ UNCHANGED <<heartbeat_interval, event, session_vars, channel_vars, hb_sleep, hb_seq,
                   recv_log, delivered, submitted, written, connections, dialed, dials_failed,
                   frames_read, ignored, heartbeats, fwd_max>>
    /\ UNCHANGED <<rest_vars, probe, lock_vars>>

\* the consumer's payload: an Err is logged and read_loop goes on
WritePayload(ok) ==
    /\ pc = "payload"
    /\ stage = "write"
    /\ RecordSend
    /\ stage' = "none"
    /\ out' = NoFrame
    /\ pc' = "running"
    /\ wire' = IF ok THEN Append(wire, out) ELSE wire
    /\ written' = IF ok THEN Append(written, out.id) ELSE written
    /\ UNCHANGED <<sleep, heartbeat_interval, reconnect_attempts, disconnect_reason, event,
                   session_vars, channel_vars, hb_vars, recv_log, delivered, submitted,
                   connections, dialed, dials_failed, attempts_failed, frames_read, ignored,
                   heartbeats, fwd_max>>
    /\ UNCHANGED <<rest_vars, probe, lock_vars>>

\* the heartbeat the gateway asked for: an Err is logged and read_loop goes on
WriteHeartbeatReply(ok) ==
    /\ pc = "hb_reply"
    /\ stage = "write"
    /\ RecordHeartbeat(ok, "reply", 0)
    /\ stage' = "none"
    /\ out' = NoFrame
    /\ pc' = "running"
    /\ wire' = IF ok THEN Append(wire, out) ELSE wire
    /\ UNCHANGED <<sleep, heartbeat_interval, reconnect_attempts, disconnect_reason, event,
                   session_vars, channel_vars, hb_vars, recv_log, delivered, submitted,
                   written, connections, dialed, dials_failed, attempts_failed, frames_read,
                   ignored, heartbeats, fwd_max>>
    /\ UNCHANGED <<rest_vars, probe, lock_vars>>

\* a sleep of the driver ends: the back-off, the wait after InvalidSession
\* (read_loop then returns), or the wait for send budget
SleepDone ==
    /\ DriverSleeping
    /\ CanElapse(sleep)
    /\ Elapse(sleep)
    /\ sleep' = 0
    /\ hb_timer' = HbTimerAfter(sleep)
    /\ hb_sleep' = HbSleepAfter(sleep)
    /\ IF stage = "sleep"
       THEN stage' = "gate" /\ UNCHANGED <<pc, disconnect_reason, event>>
       ELSE IF pc = "backoff"
       THEN pc' = "connect" /\ UNCHANGED <<stage, disconnect_reason, event>>
       ELSE /\ pc' = "cleanup"
            /\ disconnect_reason' = IF event.resumable THEN "ShouldResume" ELSE "ShouldReidentify"
            /\ event' = NoEvent
            /\ UNCHANGED stage
    /\ UNCHANGED <<out, heartbeat_interval, reconnect_attempts, session_vars, channel_vars,
                   hb_pc, hb_seq, history_vars>>
    /\ UNCHANGED <<rest_vars, probe, lock_vars>>

\* ------------------------------------------------------------------------
\* read_loop
\* ------------------------------------------------------------------------
\* the events read_loop hands to event_tx.send (all but the three it answers itself)
MeantForConsumer(e) == e.kind \notin {"HeartbeatRequest", "Reconnect", "InvalidSession"}

\* variant of AtSelect in which send_rx is also polled while an event is
\* being forwarded
AtSelectOrForwarding(at) == at \in {"running", "forward"}

\* read_loop is at the top of its loop, in the select over send_rx and ws_read
AtSelect(at) == at = "running"

\* first branch of the biased select: a payload is waiting on send_rx
TakePayload ==
    /\ AtSelect(pc)
    /\ send_q # <<>>
    /\ out' = PayloadFrame(Head(send_q))
    /\ send_q' = Tail(send_q)
    /\ pc' = "payload"
    /\ stage' = "gate"
    /\ UNCHANGED <<sleep, heartbeat_interval, reconnect_attempts, disconnect_reason, event,
                   session_vars, event_q, rx_closed, hb_vars, clock_vars, history_vars>>
    /\ UNCHANGED <<rest_vars, probe, lock_vars>>

\* second branch, a text frame that parses: the sequence is stored, the
\* payload converted to its event; limit bounds the frames of the run
ReadFrame(p, limit) ==
    /\ pc = "running"
    /\ send_q = <<>>
    /\ frames_read < limit
    /\ sequence' = IF IsSome(p.s) THEN p.s ELSE sequence
    /\ event' = [from_payload(p) EXCEPT !.id = frames_read + 1,
                                        !.s = IF p.op = 0 THEN p.s ELSE None]
    /\ frames_read' = frames_read + 1
    /\ recv_log' = IF MeantForConsumer(from_payload(p))
                   THEN Append(recv_log, frames_read + 1)
                   ELSE recv_log
    /\ pc' = "event"
    /\ UNCHANGED <<stage, sleep, out, heartbeat_interval, reconnect_attempts,
                   disconnect_reason, session_id, resume_gateway_url, channel_vars, hb_vars,
                   clock_vars, wire, delivered, submitted, written, connections, dialed,
                   dials_failed, attempts_failed, ignored, heartbeats, fwd_max>>
    /\ UNCHANGED <<rest_vars, probe, lock_vars>>

ReadText(p) == ReadFrame(p, MaxFrames)

\* a text frame that does not parse, or a ping, pong or binary frame: skipped
ReadIgnored(kind) ==
    /\ pc = "running"
    /\ send_q = <<>>
    /\ kind \in {"bad_text", "other"}
    /\ ignored' = IF audit = "frames" /\ kind = "bad_text"
                  THEN Append(ignored, frames_read)
                  ELSE ignored
    /\ Len(ignored') <= MaxIgnored
    /\ UNCHANGED <<driver_vars, session_vars, channel_vars, hb_vars, clock_vars, wire,
                   recv_log, delivered, submitted, written, connections, dialed,
                   dials_failed, attempts_failed, frames_read, heartbeats, fwd_max>>
    /\ UNCHANGED <<rest_vars, probe, lock_vars>>

\* a text frame: parsed, then skipped or handled
ReadRaw(text) ==
    IF from_str(text) = None
    THEN ReadIgnored("bad_text")
    ELSE ReadText(Unwrap(from_str(text)))

\* a read error or the end of the stream
ReadFailure(kind) ==
    /\ pc = "running"
    /\ send_q = <<>>
    /\ kind \in {"error", "end"}
    /\ disconnect_reason' = "ShouldResume"
    /\ pc' = "cleanup"
    /\ UNCHANGED <<stage, sleep, out, heartbeat_interval, reconnect_attempts, event,
                   session_vars, channel_vars, hb_vars, clock_vars, history_vars>>
    /\ UNCHANGED <<rest_vars, probe, lock_vars>>

\* variant of CloseOutcome without 4014 among the fatal codes
CloseOutcomeNo4014(code) ==
    IF code = None THEN "ShouldResume"
    ELSE IF Unwrap(code) \in FatalCloseCodes \ {4014} THEN "Fatal"
    ELSE IF Unwrap(code) \in ReidentifyCloseCodes THEN "ShouldReidentify"
    ELSE "ShouldResume"

\* the close-code policy
CloseOutcome(code) ==
    IF code = None THEN "ShouldResume"
    ELSE IF Unwrap(code) \in FatalCloseCodes THEN "Fatal"
    ELSE IF Unwrap(code) \in ReidentifyCloseCodes THEN "ShouldReidentify"
    ELSE "ShouldResume"

\* a close frame, with or without a code
ReadClose(code) ==
    /\ pc = "running"
    /\ send_q = <<>>
    /\ disconnect_reason' = CloseOutcome(code)
    /\ pc' = "cleanup"
    /\ UNCHANGED <<stage, sleep, out, heartbeat_interval, reconnect_attempts, event,
                   session_vars, channel_vars, hb_vars, clock_vars, history_vars>>
    /\ UNCHANGED <<rest_vars, probe, lock_vars>>

\* the match on the event, up to the forward
HandleEvent ==
    /\ pc = "event"
    /\ IF event.kind = "Ready"
       THEN /\ session_id' = Some(Unwrap(event.ready).session_id)
            /\ resume_gateway_url' = Some(Unwrap(event.ready).resume_gateway_url)
            /\ pc' = "forward"
            /\ UNCHANGED <<stage, sleep, out, disconnect_reason, event>>
       ELSE IF event.kind = "HeartbeatRequest"
       THEN /\ out' = HeartbeatFrame(sequence)
            /\ pc' = "hb_reply"
            /\ stage' = "gate"
            /\ event' = NoEvent
            /\ UNCHANGED <<sleep, disconnect_reason, session_id, resume_gateway_url>>
       ELSE IF event.kind = "Reconnect"
       THEN /\ disconnect_reason' = "ShouldResume"
            /\ pc' = "cleanup"
            /\ event' = NoEvent
            /\ UNCHANGED <<stage, sleep, out, session_id, resume_gateway_url>>
       ELSE IF event.kind = "InvalidSession"
       THEN /\ sleep' = IF event.resumable THEN 2000 ELSE 3000
            /\ pc' = "invalid_wait"
            /\ UNCHANGED <<stage, out, disconnect_reason, session_id, resume_gateway_url,
                           event>>
       ELSE /\ pc' = "forward"
            /\ UNCHANGED <<stage, sleep, out, disconnect_reason, session_id,
                           resume_gateway_url, event>>
    /\ UNCHANGED <<heartbeat_interval, reconnect_attempts, sequence, channel_vars, hb_vars,
                   clock_vars, history_vars>>
    /\ UNCHANGED <<rest_vars, probe, lock_vars>>

\* variant of Enqueue that puts the event in front of those waiting
EnqueueFront(q, e) == <<e>> \o q

\* the event queue is the FIFO channel made by connect()
Enqueue(q, e) == Append(q, e)

\* event_tx.send(event).await: an error once the receiver is closed, else it
\* completes as soon as the queue has room
Forward ==
    /\ pc = "forward"
    /\ event' = NoEvent
    /\ IF rx_closed
       THEN /\ disconnect_reason' = "EventChannelClosed"
            /\ pc' = "cleanup"
            /\ UNCHANGED <<event_q, fwd_max>>
       ELSE /\ Len(event_q) < EVENT_QUEUE_CAPACITY
            /\ event_q' = Enqueue(event_q, [event EXCEPT !.s = None])
            /\ pc' = "running"
            /\ fwd_max' = IF event.s = None THEN fwd_max
                          ELSE IF fwd_max = None THEN event.s
                          ELSE IF Unwrap(event.s) > Unwrap(fwd_max) THEN event.s
                          ELSE fwd_max
            /\ UNCHANGED disconnect_reason
    /\ UNCHANGED <<stage, sleep, out, heartbeat_interval, reconnect_attempts, session_vars,
                   rx_closed, send_q, hb_vars, clock_vars, wire, recv_log, delivered,
                   submitted, written, connections, dialed, dials_failed, attempts_failed,
                   frames_read, ignored, heartbeats>>
    /\ UNCHANGED <<rest_vars, probe, lock_vars>>

\* ------------------------------------------------------------------------
\* gateway_driver: step 5, after read_loop has returned
\* ------------------------------------------------------------------------
\* variant of Terminal in which a closed event channel does not end the driver
TerminalFatalOnly(reason) == reason = "Fatal"

\* the reasons on which the driver returns
Terminal(reason) == reason \in {"Fatal", "EventChannelClosed"}

\* variant of ClearedBy that never clears
ClearedByNothing(reason, field) == field

\* variant of ClearedBy that clears on every reason
ClearedByAnything(reason, field) == None

\* a field of the session that ShouldReidentify clears, after the match on reason
ClearedBy(reason, field) == IF reason = "ShouldReidentify" THEN None ELSE field

\* variant of Aborted that leaves the task as it is
AbortedNever(task_pc) == task_pc

\* hb_cancel_tx.send(()) and heartbeat_handle.abort(): wherever the task
\* stands, it is gone
Aborted(task_pc) == "off"

\* the heartbeat task is cancelled and aborted and the connection closed and
\* dropped (a Close is written, its result ignored); then the reason decides
Cleanup(r) ==
    /\ pc = "cleanup"
    /\ hb_pc' = Aborted(hb_pc)
    /\ hb_timer' = 0
    /\ hb_sleep' = 0
    /\ hb_seq' = None
    /\ wire' = <<>>
    /\ ResetLimiter
    /\ IF Terminal(disconnect_reason)
       THEN /\ pc' = "done"
            /\ UNCHANGED <<sleep, reconnect_attempts, session_id, sequence, fwd_max>>
       ELSE /\ session_id' = ClearedBy(disconnect_reason, session_id)
            /\ sequence' = ClearedBy(disconnect_reason, sequence)
            /\ fwd_max' = IF sequence' = None THEN None ELSE fwd_max
            /\ reconnect_attempts' = reconnect_attempts + 1
            /\ IF GiveUp(reconnect_attempts + 1)
               THEN pc' = "done" /\ sleep' = 0
               ELSE pc' = "backoff" /\ sleep' = backoff_delay(reconnect_attempts + 1, r)
    /\ UNCHANGED <<stage, out, heartbeat_interval, disconnect_reason, event,
                   resume_gateway_url, channel_vars, recv_log, delivered, submitted,
                   written, connections, dialed, dials_failed, attempts_failed, frames_read,
                   ignored,
                   heartbeats>>
    /\ UNCHANGED <<rest_vars, probe, lock_vars>>

\* ------------------------------------------------------------------------
\* The heartbeat task
\* ------------------------------------------------------------------------
\* variant of tick_period with ticks twice as often
tick_period_half(interval) == interval \div 2

\* tokio::time::interval(heartbeat_interval): the time from one tick to the next
tick_period(interval) == interval

\* first_delay has passed; the interval is created and its immediate first
\* tick consumed
HbFirstDelayDone ==
    /\ hb_pc = "first"
    /\ CanElapse(hb_timer)
    /\ Elapse(hb_timer)
    /\ hb_pc' = "tick"
    /\ hb_timer' = tick_period(heartbeat_interval)
    /\ sleep' = SleepAfter(hb_timer)
    /\ UNCHANGED <<pc, stage, out, heartbeat_interval, reconnect_attempts, disconnect_reason,
                   event, session_vars, channel_vars, hb_sleep, hb_seq, history_vars>>
    /\ UNCHANGED <<rest_vars, probe, lock_vars>>

\* interval.tick() fires: the sequence is read for the heartbeat
HbTick ==
    /\ hb_pc = "tick"
    /\ heartbeats < MaxHeartbeats
    /\ CanElapse(hb_timer)
    /\ Elapse(hb_timer)
    /\ hb_seq' = sequence
    /\ hb_pc' = "gate"
    /\ hb_timer' = tick_period(heartbeat_interval)
    /\ sleep' = SleepAfter(hb_timer)
    /\ heartbeats' = heartbeats + 1
    /\ UNCHANGED <<pc, stage, out, heartbeat_interval, reconnect_attempts, disconnect_reason,
                   event, session_vars, channel_vars, hb_sleep, wire, recv_log, delivered,
                   submitted, written, connections, dialed, dials_failed, attempts_failed,
                   frames_read, ignored, fwd_max>>
    /\ UNCHANGED <<rest_vars, probe, lock_vars>>

\* rate_limited_send in the task: the loop around delay()
HbGate ==
    /\ hb_pc = "gate"
    /\ IF Delay(timestamps) = None
       THEN hb_pc' = "write" /\ hb_sleep' = 0
       ELSE hb_pc' = "sleep" /\ hb_sleep' = Unwrap(Delay(timestamps))
    /\ UNCHANGED <<driver_vars, session_vars, channel_vars, hb_timer, hb_seq, clock_vars,
                   history_vars>>
    /\ UNCHANGED <<rest_vars, probe, lock_vars>>

HbSleepDone ==
    /\ hb_pc = "sleep"
    /\ CanElapse(hb_sleep)
    /\ Elapse(hb_sleep)
    /\ hb_pc' = "gate"
    /\ hb_sleep' = 0
    /\ hb_timer' = HbTimerAfter(hb_sleep)
    /\ sleep' = SleepAfter(hb_sleep)
    /\ UNCHANGED <<pc, stage, out, heartbeat_interval, reconnect_attempts, disconnect_reason,
                   event, session_vars, channel_vars, hb_seq, history_vars>>
    /\ UNCHANGED <<rest_vars, probe, lock_vars>>

\* record(), then the write: an Err ends the task
HbWrite(ok) ==
    /\ hb_pc = "write"
    /\ RecordHeartbeat(ok, "task", tick_period(heartbeat_interval) - hb_timer)
    /\ wire' = IF ok THEN Append(wire, HeartbeatFrame(hb_seq)) ELSE wire
    /\ hb_pc' = IF ok THEN "tick" ELSE "off"
    /\ hb_timer' = IF ok THEN hb_timer ELSE 0
    /\ hb_seq' = None
    /\ UNCHANGED <<driver_vars, session_vars, channel_vars, hb_sleep, recv_log, delivered,
                   submitted, written, connections, dialed, dials_failed, attempts_failed,
                   frames_read, ignored, heartbeats,
                   fwd_max>>
    /\ UNCHANGED <<rest_vars, probe, lock_vars>>

\* ------------------------------------------------------------------------
\* The consumer (holder of the GatewayHandle)
\* ------------------------------------------------------------------------
\* handle.sender.send(payload): accepted while the driver holds the receiver
\* and the queue has room
Submit(limit) ==
    /\ pc # "done"
    /\ submitted < limit
    /\ Len(send_q) < SEND_QUEUE_CAPACITY
    /\ send_q' = Append(send_q, submitted + 1)
    /\ submitted' = submitted + 1
    /\ UNCHANGED <<driver_vars, session_vars, event_q, rx_closed, hb_vars, clock_vars, wire,
                   recv_log, delivered, written, connections, dialed, dials_failed,
                   attempts_failed, frames_read, ignored,
                   heartbeats, fwd_max>>
    /\ UNCHANGED <<rest_vars, probe, lock_vars>>

\* handle.events.recv(): events already queued can be taken after close() too
Receive ==
    /\ event_q # <<>>
    /\ delivered' = Append(delivered, Head(event_q).id)
    /\ event_q' = Tail(event_q)
    /\ UNCHANGED <<driver_vars, session_vars, rx_closed, send_q, hb_vars, clock_vars, wire,
                   recv_log, submitted, written, connections, dialed, dials_failed,
                   attempts_failed, frames_read, ignored,
                   heartbeats, fwd_max>>
    /\ UNCHANGED <<rest_vars, probe, lock_vars>>

\* the consumer closes handle.events (or drops it, and then receives no more)
CloseReceiver ==
    /\ ~rx_closed
    /\ rx_closed' = TRUE
    /\ UNCHANGED <<driver_vars, session_vars, event_q, send_q, hb_vars, clock_vars,
                   history_vars>>
    /\ UNCHANGED <<rest_vars, probe, lock_vars>>

\* ------------------------------------------------------------------------
\* The REST client: request and send_message_with_file (http.rs)
\* ------------------------------------------------------------------------
RestSleeping(c) == calls[c].pc \in {"wait", "retry_wait"}

\* d milliseconds may pass without a caller oversleeping
RestCanElapse(d) == \A c \in Callers : RestSleeping(c) => calls[c].sleep >= d

\* the calls after d milliseconds
CallsAfter(d) ==
    [c \in Callers |-> IF RestSleeping(c)
                       THEN [calls[c] EXCEPT !.sleep = InstantAfter(@, d)]
                       ELSE calls[c]]

\* a caller enters request (kind "request") or send_message_with_file
\* (kind "upload") with a route key
StartCall(c, kind, route) ==
    /\ calls[c].pc = "idle"
    /\ calls_started < MaxCalls
    /\ kind = "upload" => route = "POST /channels/100/messages"
    /\ calls_started' = calls_started + 1
    /\ calls' = [calls EXCEPT ![c] = Call("preflight", kind, route, 0, 0, 0, NoResult)]
    /\ UNCHANGED <<limiter, gateway_vars, probe, lock_vars>>

\* the pre-request block: one look at the limiter, and one sleep of at most
\* 60 s if it returns a delay
Preflight(c) ==
    /\ calls[c].pc = "preflight"
    /\ LET delay == delay_for(limiter, calls[c].route) IN
       calls' = [calls EXCEPT ![c].pc = IF delay = None THEN "send" ELSE "wait",
                              ![c].sleep = IF delay = None
                                           THEN 0
                                           ELSE Min(Unwrap(delay), MAX_WAIT)]
    /\ UNCHANGED <<limiter, calls_started, gateway_vars, probe, lock_vars>>

\* the pre-request sleep ends; the request is built next
WaitDone(c) ==
    /\ calls[c].pc = "wait"
    /\ RestCanElapse(calls[c].sleep)
    /\ limiter' = LimiterAfter(limiter, calls[c].sleep)
    /\ calls' = [CallsAfter(calls[c].sleep) EXCEPT ![c].pc = "send", ![c].sleep = 0]
    /\ UNCHANGED <<calls_started, gateway_vars, probe, lock_vars>>

\* the request is built and sent: the JSON body of request may fail to
\* serialise, the transport may fail, else the request is on its way
Send(c, outcome) ==
    /\ calls[c].pc = "send"
    /\ outcome = "serde" => calls[c].kind = "request"
    /\ calls' = [calls EXCEPT ![c] =
                    IF outcome = "serde"
                    THEN [@ EXCEPT !.pc = "done", !.result = SerdeError]
                    ELSE IF outcome = "transport"
                    THEN [@ EXCEPT !.pc = "done", !.issued = @ + 1,
                                   !.result = TransportError]
                    ELSE [@ EXCEPT !.pc = "inflight", !.issued = @ + 1]]
    /\ UNCHANGED <<limiter, calls_started, gateway_vars, probe, lock_vars>>

\* variant of CanRetry that also retries after the last attempt
CanRetryAlways(attempt) == TRUE

\* the test before the sleep that follows a 429
CanRetry(attempt) == attempt < max_retries

\* the wait after a 429
RetryDelay(info) ==
    Min(IF info.reset_after = None THEN DEFAULT_RETRY_AFTER ELSE Unwrap(info.reset_after),
        MAX_WAIT)

\* the body is read, then the status decides what the call returns
Outcome(resp, route) ==
    IF ~resp.body_ok
    THEN TransportError
    ELSE IF is_ok(resp.status)
    THEN OkResult(resp.body)
    ELSE ApiError(status_to_u16(resp.status), resp.body, route)

\* variant of Updated that passes over the headers of a failure
UpdatedOnSuccess(l, route_key, resp) ==
    IF is_ok(resp.status)
    THEN update(l, route_key, parse_rate_limit_headers(resp.headers))
    ELSE l

\* the limiter once the headers of a response have been parsed and handed to
\* update, which request and send_message_with_file do first
Updated(l, route_key, resp) == update(l, route_key, parse_rate_limit_headers(resp.headers))

\* request, from the response on: the limiter is updated whatever the
\* status; a 429 stores the global lockout when flagged and, while retries
\* are left, sleeps; otherwise the call returns
Respond(c, resp) ==
    /\ calls[c].pc = "inflight"
    /\ calls[c].kind = "request"
    /\ LET info == parse_rate_limit_headers(resp.headers)
           limited == resp.status = "RateLimitExceeded"
           updated == Updated(limiter, calls[c].route, resp)
       IN  /\ limiter' = IF limited /\ info.is_global
                         THEN [updated EXCEPT !.global_until = Some(RetryDelay(info))]
                         ELSE updated
           /\ calls' = [calls EXCEPT ![c] =
                           IF limited /\ CanRetry(calls[c].attempt)
                           THEN [@ EXCEPT !.pc = "retry_wait", !.sleep = RetryDelay(info)]
                           ELSE [@ EXCEPT !.pc = "done",
                                          !.result = Outcome(resp, calls[c].route)]]
    /\ UNCHANGED <<calls_started, gateway_vars, probe, lock_vars>>

\* send_message_with_file, from the response on: the limiter is updated and
\* the call returns
RespondUpload(c, resp) ==
    /\ calls[c].pc = "inflight"
    /\ calls[c].kind = "upload"
    /\ limiter' = Updated(limiter, calls[c].route, resp)
    /\ calls' = [calls EXCEPT ![c].pc = "done",
                              ![c].result = Outcome(resp, calls[c].route)]
    /\ UNCHANGED <<calls_started, gateway_vars, probe, lock_vars>>

\* the sleep after a 429 ends: `continue`, the next attempt begins
RetryDone(c) ==
    /\ calls[c].pc = "retry_wait"
    /\ RestCanElapse(calls[c].sleep)
    /\ limiter' = LimiterAfter(limiter, calls[c].sleep)
    /\ calls' = [CallsAfter(calls[c].sleep) EXCEPT ![c].pc = "preflight", ![c].sleep = 0,
                                                  ![c].attempt = @ + 1]
    /\ UNCHANGED <<calls_started, gateway_vars, probe, lock_vars>>

\* the caller has its result and may call again
Return(c) ==
    /\ calls[c].pc = "done"
    /\ calls' = [calls EXCEPT ![c] = NoCall]
    /\ UNCHANGED <<limiter, calls_started, gateway_vars, probe, lock_vars>>

\* ------------------------------------------------------------------------
\* Specifications
\* ------------------------------------------------------------------------
\* The driver against a gateway that may answer anything: every kind of
\* frame, close and failure, on connections that end before their first
\* periodic heartbeat is due and with a consumer that only reads events.
Next ==
    \/ \E ok \in BOOLEAN, r \in RandSamples : Dial(ok, r)
    \/ \E h \in HelloResults, r \in RandSamples : ReadHello(h, r)
    \/ BuildHandshake
    \/ Gate
    \/ \E ok \in BOOLEAN, r \in RandSamples : WriteHandshake(ok, r, 999)
    \/ \E ok \in BOOLEAN : WriteHeartbeatReply(ok)
    \/ SleepDone
    \/ \E p \in Payloads : ReadText(p)
    \/ \E k \in {"bad_text", "other"} : ReadIgnored(k)
    \/ \E k \in {"error", "end"} : ReadFailure(k)
    \/ \E c \in CloseCodes : ReadClose(c)
    \/ HandleEvent
    \/ Forward
    \/ \E r \in RandSamples : Cleanup(r)
    \/ Receive
    \/ CloseReceiver

Spec == Init /\ [][Next]_vars

\* The consumer submitting payloads while connections come and go; the
\* gateway sends no text frames.
NextSend ==
    \/ \E ok \in BOOLEAN, r \in RandSamples : Dial(ok, r)
    \/ \E h \in HelloResults, r \in RandSamples : ReadHello(h, r)
    \/ BuildHandshake
    \/ Gate
    \/ \E ok \in BOOLEAN, r \in RandSamples : WriteHandshake(ok, r, 999)
    \/ SleepDone
    \/ Submit(MaxPayloads)
    \/ TakePayload
    \/ \E ok \in BOOLEAN : WritePayload(ok)
    \/ \E k \in {"error", "end"} : ReadFailure(k)
    \/ \E c \in CloseCodes : ReadClose(c)
    \/ \E r \in RandSamples : Cleanup(r)

SpecSend == Init /\ [][NextSend]_vars

\* A consumer that submits a payload whenever the send queue is empty, on
\* connections on which every dial, HELLO and write succeeds and that the
\* gateway ends with Reconnect (op 7) before the first periodic heartbeat is
\* due; the sends recorded by all limiters are kept in wire_ages.
NextBudget ==
    \/ Dial(TRUE, 0)
    \/ \E h \in HelloResults : h.ok /\ h.waited = 0 /\ ReadHello(h, 0)
    \/ BuildHandshake
    \/ Gate
    \/ WriteHandshake(TRUE, 0, 999)
    \/ SleepDone
    \/ send_q = <<>> /\ Submit(MaxBurst)
    \/ TakePayload
    \/ WritePayload(TRUE)
    \/ ReadText(Payload(7, None, None, NoData))
    \/ HandleEvent
    \/ Cleanup(0)

SpecBudget == InitAudited /\ [][NextBudget]_vars

\* One connection that stays up, with the heartbeat task running and a
\* gateway that asks for heartbeats (op 1); the consumer submits nothing, so
\* the send budget makes no sender wait. The heartbeats written are kept in
\* beats.
NextHeartbeat ==
    \/ Dial(TRUE, 0)
    \/ \E h \in HelloResults : h.ok /\ ReadHello(h, 0)
    \/ BuildHandshake
    \/ Gate
    \/ \E j \in {0, 500} : WriteHandshake(TRUE, 0, j)
    \/ HbFirstDelayDone
    \/ HbTick
    \/ HbGate
    \/ \E ok \in BOOLEAN : HbWrite(ok)
    \/ ReadText(Payload(1, None, None, NoData))
    \/ HandleEvent
    \/ WriteHeartbeatReply(TRUE)

SpecHeartbeat == InitCadence /\ [][NextHeartbeat]_vars

\* One connection that stays up, on which the consumer submits a payload
\* whenever read_loop is waiting and the send queue is empty, while the
\* heartbeat task sends its first heartbeat: two senders go through
\* rate_limited_send on the connection's one limiter.
NextShared ==
    \/ Dial(TRUE, 0)
    \/ \E h \in HelloResults : h.ok /\ h.waited = 0 /\ ReadHello(h, 0)
    \/ BuildHandshake
    \/ Gate
    \/ WriteHandshake(TRUE, 0, 0)
    \/ SleepDone
    \/ send_q = <<>> /\ pc = "running" /\ Submit(MaxBurst)
    \/ TakePayload
    \/ WritePayload(TRUE)
    \/ HbFirstDelayDone
    \/ heartbeats = 0 /\ HbTick
    \/ HbGate
    \/ HbSleepDone
    \/ HbWrite(TRUE)

SpecShared == Init /\ [][NextShared]_vars

\* Attempts that may fail at any step before the connection is established,
\* and established connections that the gateway ends; the attempts that
\* failed in a row are kept in attempts_failed.
NextAttempts ==
    \/ \E ok \in BOOLEAN : Dial(ok, 0)
    \/ \E h \in HelloResults : ReadHello(h, 0)
    \/ BuildHandshake
    \/ Gate
    \/ \E ok \in BOOLEAN : WriteHandshake(ok, 0, 999)
    \/ SleepDone
    \/ ReadFailure("end")
    \/ Cleanup(0)

SpecAttempts == InitAttempts /\ [][NextAttempts]_vars

\* One connection on which the gateway sends dispatches faster than the
\* consumer receives them; the consumer may also close its receiver.
NextFlood ==
    \/ Dial(TRUE, 0)
    \/ \E h \in HelloResults : h.ok /\ h.waited = 0 /\ ReadHello(h, 0)
    \/ BuildHandshake
    \/ Gate
    \/ WriteHandshake(TRUE, 0, 999)
    \/ ReadFrame(Payload(0, Some("TYPING_START"), None, OtherData), MaxFlood)
    \/ HandleEvent
    \/ Forward
    \/ Receive
    \/ CloseReceiver

SpecFlood == Init /\ [][NextFlood]_vars

\* The same flood with a consumer that leaves the event queue to fill up:
\* only once it is full does the consumer submit payloads or take an event.
NextBlocked ==
    \/ Dial(TRUE, 0)
    \/ \E h \in HelloResults : h.ok /\ h.waited = 0 /\ ReadHello(h, 0)
    \/ BuildHandshake
    \/ Gate
    \/ WriteHandshake(TRUE, 0, 999)
    \/ ReadFrame(Payload(0, Some("TYPING_START"), None, OtherData), MaxFlood)
    \/ HandleEvent
    \/ Forward
    \/ Len(event_q) = EVENT_QUEUE_CAPACITY /\ Receive
    \/ Len(event_q) = EVENT_QUEUE_CAPACITY /\ Submit(MaxPayloads)
    \/ TakePayload
    \/ WritePayload(TRUE)

SpecBlocked == Init /\ [][NextBlocked]_vars

\* One connection on which the gateway sends text frames of any content,
\* well-formed or not; the frames skipped are kept in ignored.
NextFrames ==
    \/ Dial(TRUE, 0)
    \/ \E h \in HelloResults : h.ok /\ h.waited = 0 /\ ReadHello(h, 0)
    \/ BuildHandshake
    \/ Gate
    \/ WriteHandshake(TRUE, 0, 999)
    \/ \E text \in TextSamples : ReadRaw(text)
    \/ HandleEvent
    \/ Forward
    \/ Receive

SpecFrames == InitFrames /\ [][NextFrames]_vars

\* Connections on which everything is at work: a consumer that submits
\* payloads from the start, the heartbeat task with a first delay of zero, a
\* gateway that asks for heartbeats or ends the stream, and HELLOs, handshake
\* writes and periodic heartbeats that may fail.
NextConnection ==
    \/ Dial(TRUE, 0)
    \/ \E h \in HelloResults : ReadHello(h, 0)
    \/ BuildHandshake
    \/ Gate
    \/ \E ok \in BOOLEAN : WriteHandshake(ok, 0, 0)
    \/ SleepDone
    \/ Submit(MaxPayloads)
    \/ TakePayload
    \/ WritePayload(TRUE)
    \/ HbFirstDelayDone
    \/ HbTick
    \/ HbGate
    \/ \E ok \in BOOLEAN : HbWrite(ok)
    \/ ReadText(Payload(1, None, None, NoData))
    \/ HandleEvent
    \/ WriteHeartbeatReply(TRUE)
    \/ ReadFailure("end")
    \/ Cleanup(0)

SpecConnection == Init /\ [][NextConnection]_vars

\* One caller at a time against a server that may answer anything.
NextRest ==
    \/ \E k \in {"request", "upload"}, r \in Routes : StartCall("a", k, r)
    \/ Preflight("a")
    \/ WaitDone("a")
    \/ \E o \in {"sent", "serde", "transport"} : Send("a", o)
    \/ \E resp \in Responses : Respond("a", resp)
    \/ \E resp \in Responses : RespondUpload("a", resp)
    \/ RetryDone("a")
    \/ Return("a")

SpecRest == Init /\ [][NextRest]_vars

\* what the server answers in the runs with two callers: success without
\* headers, success that exhausts the bucket for 2 s, and a global 429 of 5 s
SharedResponses ==
    {Response("Ok", Headers(None, None, None, None, None), "{\"id\":\"1\"}", TRUE),
     Response("Ok", Headers(Some(0), Some(2000), Some("abc"), None, None),
              "{\"id\":\"1\"}", TRUE),
     Response("RateLimitExceeded", Headers(None, Some(5000), None, Some("true"), Some(5000)),
              "{\"code\":0}", TRUE)}

\* Two callers sharing the client, each making requests on either route.
NextRestShared ==
    \/ \E c \in Callers, r \in Routes : StartCall(c, "request", r)
    \/ \E c \in Callers : Preflight(c)
    \/ \E c \in Callers : WaitDone(c)
    \/ \E c \in Callers : Send(c, "sent")
    \/ \E c \in Callers, resp \in SharedResponses : Respond(c, resp)
    \/ \E c \in Callers : RetryDone(c)
    \/ \E c \in Callers : Return(c)

SpecRestShared == Init /\ [][NextRestShared]_vars

\* what the server answers in the runs about a bucket of two routes: every
\* response names bucket abc; a 429 with requests left, and a success that
\* exhausts the bucket for 2 s or for 90 s
BucketResponses ==
    {Response("RateLimitExceeded", Headers(Some(4), Some(2000), Some("abc"), None, Some(2000)),
              "{\"code\":0}", TRUE),
     Response("Ok", Headers(Some(0), Some(2000), Some("abc"), None, None),
              "{\"id\":\"1\"}", TRUE),
     Response("Ok", Headers(Some(0), Some(90000), Some("abc"), None, None),
              "{\"id\":\"1\"}", TRUE)}

\* Two callers sharing the client, each making requests on either route, with
\* both routes in one bucket.
NextBuckets ==
    \/ \E c \in Callers, r \in Routes : StartCall(c, "request", r)
    \/ \E c \in Callers : Preflight(c)
    \/ \E c \in Callers : WaitDone(c)
    \/ \E c \in Callers : Send(c, "sent")
    \/ \E c \in Callers, resp \in BucketResponses : Respond(c, resp)
    \/ \E c \in Callers : RetryDone(c)
    \/ \E c \in Callers : Return(c)

SpecBuckets == Init /\ [][NextBuckets]_vars

\* backoff_delay on its own: every attempt number up to MaxAttempt with draws
\* of the random factor spread over [0, 1), both ends included
MaxAttempt == 10
JitterDraws == {r \in 0..999 : r % 111 = 0}

InitBackoff ==
    /\ Start("none")
    /\ Unlocked
    /\ probe \in {[fn |-> "backoff_delay", args |-> <<k, r>>, out |-> <<>>] :
                    k \in 1..MaxAttempt, r \in JitterDraws}

ApplyBackoff ==
    /\ probe.fn = "backoff_delay"
    /\ probe.out = <<>>
    /\ probe' = [probe EXCEPT !.out = <<backoff_delay(probe.args[1], probe.args[2])>>]
    /\ UNCHANGED <<gateway_vars, rest_vars, lock_vars>>

NextBackoff == ApplyBackoff

SpecBackoff == InitBackoff /\ [][NextBackoff]_vars

\* ------------------------------------------------------------------------
\* count_messages (http.rs 551-578) on its own, against a server that answers
\* each page with at most the 100 messages asked for, or with an error
\* ------------------------------------------------------------------------
max_pages == 100
\* the limit of every page request, and what a page is compared with
PAGE_LIMIT == 100

MessageIds == {"m1", "m2"}

\* what get_messages returns: Err, or Ok with a vector, of which the length
\* and the id of the last message are kept
PageError == [ok |-> FALSE, len |-> 0, last |-> None]
Page(len, last) == [ok |-> TRUE, len |-> len, last |-> last]
Pages ==
    {PageError, Page(0, None)}
        \cup {Page(n, Some(m)) : n \in {1, PAGE_LIMIT - 1, PAGE_LIMIT}, m \in MessageIds}

\* the query of a page request
Query(before) == [limit |-> PAGE_LIMIT, before |-> before]

\* variant of Cursor that leaves the cursor where it was
CursorKept(before, page) == before

\* `before` after a page that is not empty: the id of its last message
Cursor(before, page) == page.last

\* the pages received: none yet, and after one more
NoneSeen == [n |-> 0, last |-> None, full_before |-> TRUE]
Seen(seen, page) ==
    [n |-> seen.n + 1,
     last |-> Some(page),
     full_before |-> /\ seen.full_before
                     /\ seen.last # None =>
                            (Unwrap(seen.last).ok /\ Unwrap(seen.last).len = PAGE_LIMIT)]

\* count_messages is entered: count = 0, before = None; pages counts the
\* turns of the loop begun, asked is the query in flight; of the pages
\* received, seen keeps how many, the last one, and whether every one before
\* it was a full page
InitCount ==
    /\ Start("none")
    /\ Unlocked
    /\ probe = [fn |-> "count_messages", args |-> <<"100">>, out |-> <<>>,
                pc |-> "loop", count |-> 0, before |-> None, pages |-> 0,
                asked |-> None, seen |-> NoneSeen]

\* a turn of the loop begins: the query is built and get_messages called
RequestPage ==
    /\ probe.fn = "count_messages"
    /\ probe.pc = "loop"
    /\ probe.pages < max_pages
    /\ probe' = [probe EXCEPT !.pc = "page", !.pages = @ + 1,
                              !.asked = Some(Query(probe.before))]
    /\ UNCHANGED <<gateway_vars, rest_vars, lock_vars>>

\* get_messages returns: `?` passes an error on, an empty page breaks, else
\* the page is counted and the cursor moved, and a short page breaks
PageReturned(page) ==
    /\ probe.fn = "count_messages"
    /\ probe.pc = "page"
    /\ probe' =
        LET got == [probe EXCEPT !.seen = Seen(@, page), !.asked = None] IN
        IF ~page.ok
        THEN [got EXCEPT !.pc = "done", !.out = <<[ok |-> FALSE, count |-> 0]>>]
        ELSE IF page.len = 0
        THEN [got EXCEPT !.pc = "done", !.out = <<[ok |-> TRUE, count |-> probe.count]>>]
        ELSE IF page.len < PAGE_LIMIT
        THEN [got EXCEPT !.pc = "done", !.count = @ + page.len,
                         !.before = Cursor(probe.before, page),
                         !.out = <<[ok |-> TRUE, count |-> probe.count + page.len]>>]
        ELSE [got EXCEPT !.pc = "loop", !.count = @ + page.len,
                         !.before = Cursor(probe.before, page)]
    /\ UNCHANGED <<gateway_vars, rest_vars, lock_vars>>

\* the for loop has made max_pages turns: Ok(count)
PagesExhausted ==
    /\ probe.fn = "count_messages"
    /\ probe.pc = "loop"
    /\ probe.pages = max_pages
    /\ probe' = [probe EXCEPT !.pc = "done", !.out = <<[ok |-> TRUE, count |-> probe.count]>>]
    /\ UNCHANGED <<gateway_vars, rest_vars, lock_vars>>

NextCount ==
    \/ RequestPage
    \/ \E page \in Pages : PageReturned(page)
    \/ PagesExhausted

SpecCount == InitCount /\ [][NextCount]_vars

\* ------------------------------------------------------------------------
\* The route keys of the high-level methods (http.rs 339-546), on their own
\* ------------------------------------------------------------------------
\* the parameters of each method that go into its path, in the order of the
\* path; a query string is the parameter "query"
MethodParams ==
    [create_message |-> <<"channel_id">>,
     send_message_with_file |-> <<"channel_id">>,
     get_messages |-> <<"channel_id", "query">>,
     get_guild |-> <<"guild_id">>,
     create_interaction_response |-> <<"interaction_id", "interaction_token">>,
     edit_original_interaction_response |-> <<"application_id", "interaction_token">>,
     bulk_overwrite_guild_commands |-> <<"application_id", "guild_id">>,
     bulk_overwrite_global_commands |-> <<"application_id">>,
     get_channel |-> <<"channel_id">>]

Methods == DOMAIN MethodParams

\* values a parameter may take
ParamValues == {"1", "2"}

\* a call of a method: its name and the values of its parameters, in order
Requests ==
    UNION {{[method |-> m, args |-> a] : a \in [1..Len(MethodParams[m]) -> ParamValues]} :
            m \in Methods}

\* the value a request gives to a parameter
Arg(req, name) ==
    LET i == CHOOSE j \in 1..Len(MethodParams[req.method]) :
                    MethodParams[req.method][j] = name
    IN  req.args[i]

\* the route_key each method builds: the text of its format!, as the HTTP
\* method and the segments of the path
route_key(req) ==
    CASE req.method = "create_message" ->
            <<"POST", "channels", Arg(req, "channel_id"), "messages">>
      [] req.method = "send_message_with_file" ->
            <<"POST", "channels", Arg(req, "channel_id"), "messages">>
      [] req.method = "get_messages" ->
            <<"GET", "channels", Arg(req, "channel_id"), "messages">>
      [] req.method = "get_guild" ->
            <<"GET", "guilds", Arg(req, "guild_id")>>
      [] req.method = "create_interaction_response" ->
            <<"POST", "interactions", "callback">>
      [] req.method = "edit_original_interaction_response" ->
            <<"PATCH", "webhooks", "interaction", "messages", "@original">>
      [] req.method = "bulk_overwrite_guild_commands" ->
            <<"PUT", "applications", Arg(req, "application_id"), "guilds",
              Arg(req, "guild_id"), "commands">>
      [] req.method = "bulk_overwrite_global_commands" ->
            <<"PUT", "applications", Arg(req, "application_id"), "commands">>
      [] req.method = "get_channel" ->
            <<"GET", "channels", Arg(req, "channel_id")>>

\* two calls of one method, and the route keys they build
InitRoutes ==
    /\ Start("none")
    /\ Unlocked
    /\ probe \in {[fn |-> "route_key", args |-> <<a, b>>, out |-> <<>>] :
                    a \in Requests, b \in Requests}
    /\ probe.args[1].method = probe.args[2].method

ApplyRouteKey ==
    /\ probe.fn = "route_key"
    /\ probe.out = <<>>
    /\ probe' = [probe EXCEPT !.out = <<route_key(probe.args[1]), route_key(probe.args[2])>>]
    /\ UNCHANGED <<gateway_vars, rest_vars, lock_vars>>

NextRoutes == ApplyRouteKey

SpecRoutes == InitRoutes /\ [][NextRoutes]_vars

\* ------------------------------------------------------------------------
\* The mutexes: the code of each task as the guards it takes and drops and
\* the awaits it makes, in program order
\* ------------------------------------------------------------------------
\* `let g = m.lock().await`
Lock(m) == [op |-> "lock", on |-> m]
\* the guard of m goes out of scope or is passed to drop()
Unlock(m) == [op |-> "unlock", on |-> m]
\* an await on network I/O ("io"), on a timer ("sleep") or on a bounded
\* queue ("queue")
Await(x) == [op |-> "await", on |-> x]

\* turns of the wait loop of rate_limited_send a send may make
MaxWaits == 1

RECURSIVE Repeat(_, _)
Repeat(steps, n) == IF n = 0 THEN <<>> ELSE steps \o Repeat(steps, n - 1)

\* a turn of the wait loop with the guard alive until after the sleep
delay_round_holding == <<Lock("send_budget"), Await("sleep"), Unlock("send_budget")>>

\* a turn of the wait loop of rate_limited_send that finds no budget: the
\* block of 664-667 yields the delay and ends, then the sleep of 674
delay_round == <<Lock("send_budget"), Unlock("send_budget"), Await("sleep")>>

\* rate_limited_send (657-692) after `waits` turns without budget: the turn
\* that finds budget (664-667, 676), the record (681-684), and the write under
\* the sink's guard, which lives to the end of the function (688-692)
rate_limited_send_steps(waits) ==
    Repeat(delay_round, waits)
        \o <<Lock("send_budget"), Unlock("send_budget")>>
        \o <<Lock("send_budget"), Unlock("send_budget")>>
        \o <<Lock("ws_write"), Await("io"), Unlock("ws_write")>>

\* one pass of the loop of gateway_driver (205-436) over a connection that
\* carries a consumer's payload, a READY, a heartbeat request and an
\* InvalidSession(false)
gateway_driver_steps(resume, waits) ==
    <<Lock("session"), Unlock("session")>>                      \* 207-212
        \o <<Await("io")>>                                      \* 225
        \o <<Await("io")>>                                      \* 262, 628-629
        \o <<Lock("session"), Unlock("session")>>               \* 278-281
        \o (IF resume
            THEN <<Lock("session"), Unlock("session")>>         \* 284-293
            ELSE <<>>)
        \o rate_limited_send_steps(waits)                       \* 294 or 320
        \o <<Await("queue")>>                                   \* 466-470
        \o rate_limited_send_steps(waits)                       \* 471
        \o <<Await("io")>>                                      \* 477
        \o <<Lock("session"), Unlock("session")>>               \* 501-504
        \o <<Lock("session"), Unlock("session")>>               \* 510-519
        \o <<Await("queue")>>                                   \* 561
        \o <<Await("io")>>                                      \* 477
        \o <<Lock("session"), Unlock("session")>>               \* 523-526
        \o rate_limited_send_steps(waits)                       \* 528
        \o <<Await("io")>>                                      \* 477
        \o <<Await("sleep")>>                                   \* 552
        \o <<Await("queue")>>                                   \* 392
        \o <<Lock("ws_write"), Await("io"), Unlock("ws_write")>> \* 396-401
        \o <<Lock("session"), Unlock("session")>>               \* 410-414
        \o <<Await("sleep")>>                                   \* 436

\* the heartbeat task (338-373) up to the end of its first heartbeat
heartbeat_steps(waits) ==
    <<Await("sleep")>>                                          \* 343-346
        \o <<Await("sleep")>>                                   \* 350
        \o <<Await("sleep")>>                                   \* 353-354
        \o <<Lock("session"), Unlock("session")>>               \* 355-358
        \o rate_limited_send_steps(waits)                       \* 361

\* one turn of the loop of DiscordHttpClient::request (232-310): pre says
\* whether delay_for gave a delay, resp is "ok", "limited" (a 429) or
\* "global" (a 429 with the global flag)
request_attempt(pre, resp) ==
    <<Lock("rate_limiter")>>                                    \* 235
        \o (IF pre
            THEN <<Unlock("rate_limiter"), Await("sleep")>>     \* 238, 244
            ELSE <<Unlock("rate_limiter")>>)                    \* 246
        \o <<Await("io")>>                                      \* 258-260
        \o <<Lock("rate_limiter"), Unlock("rate_limiter")>>     \* 267-270
        \o (IF resp = "global"
            THEN <<Lock("rate_limiter"), Unlock("rate_limiter")>> \* 283-286
            ELSE <<>>)
        \o (IF resp = "ok"
            THEN <<Await("io")>>                                \* 294-296
            ELSE <<Await("sleep")>>)                            \* 289

\* request: the turn answered resp and, after a 429, the turn that succeeds
request_steps(pre, resp) ==
    request_attempt(pre, resp)
        \o (IF resp = "ok" THEN <<>> ELSE request_attempt(FALSE, "ok"))

\* send_message_with_file (362-425)
send_message_with_file_steps(pre) ==
    <<Lock("rate_limiter")>>                                    \* 375
        \o (IF pre
            THEN <<Unlock("rate_limiter"), Await("sleep")>>     \* 378, 384
            ELSE <<Unlock("rate_limiter")>>)                    \* 386
        \o <<Await("io")>>                                      \* 397-399
        \o <<Lock("rate_limiter"), Unlock("rate_limiter")>>     \* 405-408
        \o <<Await("io")>>                                      \* 410-412

\* the calls a caller may be making
CallerSteps ==
    {request_steps(pre, resp) : pre \in BOOLEAN, resp \in {"ok", "limited", "global"}}
        \cup {send_message_with_file_steps(pre) : pre \in BOOLEAN}

Thread(steps) == [code |-> steps, at |-> "run"]

InitLocks ==
    /\ Start("none")
    /\ probe = NoProbe
    /\ owner = [m \in Mutexes |-> None]
    /\ \E resume \in BOOLEAN, dw \in 0..MaxWaits, hw \in 0..MaxWaits, call \in CallerSteps :
            threads = [t \in Tasks |->
                        CASE t = "driver" -> Thread(gateway_driver_steps(resume, dw))
                          [] t = "heartbeat" -> Thread(heartbeat_steps(hw))
                          [] t = "caller" -> Thread(call)]

\* the step a task is about to take
NextStep(t) == Head(threads[t].code)
Running(t) == threads[t].at = "run" /\ threads[t].code # <<>>
Advance(t) == [threads EXCEPT ![t].code = Tail(@), ![t].at = "run"]

\* the guards a task holds
Held(t) == {m \in Mutexes : owner[m] = Some(t)}

\* lock().await completes once the mutex is free
Acquire(t) ==
    /\ Running(t)
    /\ NextStep(t).op = "lock"
    /\ owner[NextStep(t).on] = None
    /\ owner' = [owner EXCEPT ![NextStep(t).on] = Some(t)]
    /\ threads' = Advance(t)
    /\ UNCHANGED <<gateway_vars, rest_vars, probe>>

\* a guard is dropped
Release(t) ==
    /\ Running(t)
    /\ NextStep(t).op = "unlock"
    /\ owner[NextStep(t).on] = Some(t)
    /\ owner' = [owner EXCEPT ![NextStep(t).on] = None]
    /\ threads' = Advance(t)
    /\ UNCHANGED <<gateway_vars, rest_vars, probe>>

\* the task reaches an await that is not ready and yields
Suspend(t) ==
    /\ Running(t)
    /\ NextStep(t).op = "await"
    /\ threads' = [threads EXCEPT ![t].at = "await"]
    /\ UNCHANGED <<owner, gateway_vars, rest_vars, probe>>

\* the awaited I/O, timer or queue operation completes
Wake(t) ==
    /\ threads[t].at = "await"
    /\ threads' = Advance(t)
    /\ UNCHANGED <<owner, gateway_vars, rest_vars, probe>>

\* a task is suspended in an await, a contended lock().await included
Suspended(t) ==
    \/ threads[t].at = "await"
    \/ /\ Running(t)
       /\ NextStep(t).op = "lock"
       /\ owner[NextStep(t).on] # None

NextLocks ==
    \/ \E t \in Tasks : Acquire(t)
    \/ \E t \in Tasks : Release(t)
    \/ \E t \in Tasks : Suspend(t)
    \/ \E t \in Tasks : Wake(t)

SpecLocks == InitLocks /\ [][NextLocks]_vars

\* ------------------------------------------------------------------------
\* Properties of the session protocol (checked under Spec)
\* ------------------------------------------------------------------------
\* the driver between the end of one connection and the handshake of the next
Reconnecting == pc \in {"backoff", "connect", "hello", "identify", "handshake"}

HandshakeFrames(w) == {i \in DOMAIN w : w[i].op \in {2, 6}}

C1_HandshakeStep ==
    /\ pc = "identify" => pc' \in {"identify", "handshake"}
    /\ (pc = "handshake" /\ pc' = "running") =>
            wire' = <<IF IsSome(session_id) /\ IsSome(sequence)
                      THEN Frame("text", 6, session_id, sequence, 0)
                      ELSE Frame("text", 2, None, None, 0)>>
    /\ (pc = "handshake" /\ pc' # "running") => wire' = wire
    /\ pc # "handshake" => HandshakeFrames(wire') \subseteq HandshakeFrames(wire)

\* C1: after a valid HELLO the driver goes on to its handshake and writes
\* exactly one handshake frame on the connection: RESUME (op 6) with the stored
\* session_id and sequence if and only if both are set at that moment,
\* otherwise IDENTIFY (op 2); no other step writes a handshake frame.
C1_OneHandshake == [][C1_HandshakeStep]_vars

\* a second connection whose handshake was a RESUME carrying the stored session
C1_Witness ==
    /\ connections = 2
    /\ pc = "running"
    /\ wire = <<Frame("text", 6, Some("S"), Some(2), 0)>>

C2_FatalCodes == {4004, 4010, 4011, 4012, 4013, 4014}

C2_FatalStep ==
    /\ \A c \in C2_FatalCodes :
            ReadClose(Some(c)) => (pc' = "cleanup" /\ disconnect_reason' = "Fatal")
    /\ (pc = "cleanup" /\ disconnect_reason = "Fatal" /\ pc' # pc) =>
            /\ pc' = "done"
            /\ sleep' = 0
            /\ UNCHANGED <<reconnect_attempts, connections, dials_failed, event_q>>
    /\ (pc \in {"cleanup", "done"} /\ disconnect_reason = "Fatal") =>
            /\ pc' \in {"cleanup", "done"}
            /\ UNCHANGED <<disconnect_reason, connections, dials_failed>>
            /\ \/ event_q' = event_q
               \/ event_q # <<>> /\ event_q' = Tail(event_q)
                  /\ delivered' = Append(delivered, Head(event_q).id)

\* C2: a close frame with code 4004, 4010, 4011, 4012, 4013 or 4014 ends the
\* read loop with the fatal outcome; the driver then terminates without
\* dialing again, without back-off and without touching the reconnect counter,
\* and the event queue keeps its events, which leave it only by being
\* received.
C2_FatalTerminates == [][C2_FatalStep]_vars

\* terminated on a fatal close with events still waiting for the consumer
C2_Witness ==
    /\ pc = "done"
    /\ disconnect_reason = "Fatal"
    /\ reconnect_attempts = 0
    /\ Len(event_q) = 2

C3_ReidentifyStep ==
    /\ \A c \in {4007, 4009} :
            ReadClose(Some(c)) => (pc' = "cleanup" /\ disconnect_reason' = "ShouldReidentify")
    /\ \A p \in Payloads :
            (p.op = 9 /\ p.d.bool = Some(FALSE) /\ ReadText(p)) =>
                (event'.kind = "InvalidSession" /\ ~event'.resumable)
    /\ (pc = "event" /\ event.kind = "InvalidSession" /\ pc' # pc) =>
            (pc' = "invalid_wait" /\ event' = event)
    /\ (pc = "invalid_wait" /\ ~event.resumable /\ pc' # pc) =>
            (pc' = "cleanup" /\ disconnect_reason' = "ShouldReidentify")
    /\ (pc = "cleanup" /\ disconnect_reason = "ShouldReidentify" /\ pc' # pc) =>
            (pc' = "backoff" /\ session_id' = None /\ sequence' = None)
    /\ (Reconnecting /\ disconnect_reason = "ShouldReidentify") =>
            /\ session_id = None /\ sequence = None
            /\ session_id' = None /\ sequence' = None
            /\ wire' # wire => wire' = <<Frame("text", 2, None, None, 0)>>

\* C3: a close frame with code 4007 or 4009, and an InvalidSession whose data
\* is false, end the read loop with the re-identify outcome; session_id and
\* sequence are then cleared before the driver dials again and stay cleared
\* until the handshake, so the handshake frame written next is IDENTIFY.
C3_ReidentifyClears == [][C3_ReidentifyStep]_vars

\* about to write IDENTIFY on the connection that follows a re-identify
\* outcome, the resume URL of the lost session still stored
C3_Witness ==
    /\ pc = "handshake"
    /\ stage = "write"
    /\ disconnect_reason = "ShouldReidentify"
    /\ out = Frame("text", 2, None, None, 0)
    /\ IsSome(resume_gateway_url)
    /\ connections = 2

C4_ResumableCloses ==
    {Some(c) : c \in {1000, 1001, 1006, 4000, 4001, 4002, 4003, 4005, 4008}} \cup {None}

C4_ResumeStep ==
    /\ \A c \in C4_ResumableCloses :
            ReadClose(c) => (pc' = "cleanup" /\ disconnect_reason' = "ShouldResume")
    /\ \A k \in {"error", "end"} :
            ReadFailure(k) => (pc' = "cleanup" /\ disconnect_reason' = "ShouldResume")
    /\ (pc = "event" /\ event.kind = "Reconnect" /\ pc' # pc) =>
            (pc' = "cleanup" /\ disconnect_reason' = "ShouldResume")
    /\ (pc = "invalid_wait" /\ event.resumable /\ pc' # pc) =>
            (pc' = "cleanup" /\ disconnect_reason' = "ShouldResume")
    /\ (disconnect_reason' = "ShouldResume" /\ (pc' = "cleanup" \/ Reconnecting')) =>
            UNCHANGED <<session_id, resume_gateway_url, sequence>>
    /\ (Reconnecting /\ disconnect_reason = "ShouldResume" /\ wire' # wire
            /\ IsSome(session_id) /\ IsSome(sequence)) =>
            wire' = <<Frame("text", 6, session_id, sequence, 0)>>

\* C4: a close frame with a code outside the fatal and re-identify lists or
\* without a code, the end of the stream, a read error, Reconnect (op 7) and
\* InvalidSession(true) end the read loop with the resume outcome; from that
\* step until the next handshake session_id, resume_gateway_url and sequence
\* do not change, and the handshake written is RESUME with them whenever
\* session_id and sequence are both set.
C4_ResumePreserves == [][C4_ResumeStep]_vars

\* about to write RESUME with the session kept across a resume outcome
C4_Witness ==
    /\ pc = "handshake"
    /\ stage = "write"
    /\ disconnect_reason = "ShouldResume"
    /\ out = Frame("text", 6, Some("S"), Some(2), 0)
    /\ IsSome(resume_gateway_url)

\* C5: the stored sequence is never less than the s of a dispatch already
\* forwarded to the consumer on the session.
C5_SequenceNeverBehind ==
    fwd_max = None \/ (IsSome(sequence) /\ Unwrap(sequence) >= Unwrap(fwd_max))

\* ids of the events waiting in the queue, and of the one being handled
QueuedIds == [i \in DOMAIN event_q |-> event_q[i].id]
PendingIds == IF pc \in {"event", "forward"} /\ event.kind \notin {"HeartbeatRequest", "Reconnect", "InvalidSession"}
              THEN <<event.id>> ELSE <<>>

\* C6: while the consumer keeps its receiver open, the events it has
\* received, followed by those queued and the one being forwarded, are the
\* frames received from the gateway that carry an event for the consumer, in
\* the order received, each once, also across reconnects.
C6_InOrder == ~rx_closed => delivered \o QueuedIds \o PendingIds = recv_log

\* frames 1 and 3 delivered, frame 2 being the Reconnect that carried s = 2:
\* the two events were received on different connections
C6_Witness ==
    /\ ~rx_closed
    /\ delivered = <<1, 3>>
    /\ wire = <<Frame("text", 6, Some("S"), Some(2), 0)>>

\* ------------------------------------------------------------------------
\* Properties of the outbound path (C7 under SpecBudget, C8 under SpecSend)
\* ------------------------------------------------------------------------
\* C7: at every instant the sends recorded in the preceding 60 seconds, on
\* this connection and on those before it, number at most 120.
C7_WithinBudget == Len(wire_ages) <= SEND_BUDGET_MAX

\* the payload rate_limited_send is working on
InFlight == IF pc = "payload" THEN <<out.id>> ELSE <<>>

\* C8: the payloads accepted so far are, in the order of their submission,
\* those written to the gateway, then the one being written, then those still
\* queued: none is lost, written twice or written out of order.
C8_WrittenOnceInOrder == written \o InFlight \o send_q = [i \in 1..submitted |-> i]

\* ------------------------------------------------------------------------
\* Properties of the reconnect policy and of shutdown (checked under Spec)
\* ------------------------------------------------------------------------
\* C9 as stated: the driver terminates once 8 consecutive dials have failed
\* and never makes a 9th.
C9_EightFailures ==
    /\ dials_failed <= 8
    /\ dials_failed = 8 => pc = "done"

\* C9 amended: the driver terminates at the failed dial that takes the
\* counter above 8: the 9th consecutive one when no connection was
\* established before them (the first attempt and 8 reconnects), the 8th
\* after a connection was established; it never makes a 10th.
C9_GivesUp ==
    LET allowed == IF connections = 0 THEN 9 ELSE 8
    IN  /\ dials_failed <= allowed
        /\ dials_failed = allowed => pc = "done"
        /\ (pc = "done" /\ disconnect_reason \notin {"Fatal", "EventChannelClosed"}) =>
                dials_failed = allowed

\* gave up after nine failed dials, never having connected
C9_Witness ==
    /\ pc = "done"
    /\ connections = 0
    /\ dials_failed = 9

C10_ClosedStep ==
    /\ (pc = "forward" /\ rx_closed /\ pc' # pc) =>
            (pc' = "cleanup" /\ disconnect_reason' = "EventChannelClosed")
    /\ (disconnect_reason' = "EventChannelClosed" /\ disconnect_reason # "EventChannelClosed") =>
            (pc = "forward" /\ rx_closed)
    /\ (pc # "forward" /\ rx_closed' /\ ~rx_closed) => pc' = pc
    /\ (pc = "cleanup" /\ disconnect_reason = "EventChannelClosed" /\ pc' # pc) =>
            /\ pc' = "done"
            /\ sleep' = 0
            /\ UNCHANGED <<reconnect_attempts, connections, dials_failed>>
    /\ (pc \in {"cleanup", "done"} /\ disconnect_reason = "EventChannelClosed") =>
            /\ pc' \in {"cleanup", "done"}
            /\ UNCHANGED <<disconnect_reason, connections, dials_failed, sleep>>

\* C10: once the consumer has closed its receiver the driver goes on until
\* it next forwards an event; that forward fails, the read loop ends with
\* the closed-channel outcome, and the driver terminates without dialing
\* again and without any back-off sleep.
C10_ClosedTerminates == [][C10_ClosedStep]_vars

\* terminated on the first connection because the receiver was closed
C10_Witness ==
    /\ pc = "done"
    /\ disconnect_reason = "EventChannelClosed"
    /\ rx_closed
    /\ sleep = 0
    /\ frames_read = 2
    /\ connections = 1

\* ------------------------------------------------------------------------
\* C11
\* ------------------------------------------------------------------------
C11_RequestStep ==
    /\ (pc = "event" /\ event.kind = "HeartbeatRequest") =>
            /\ UNCHANGED <<sequence, frames_read, recv_log, wire>>
            /\ Len(event_q') <= Len(event_q)
            /\ IF pc' = pc
               THEN UNCHANGED <<event, out>>
               ELSE /\ pc' = "hb_reply"
                    /\ out' = [kind |-> "text", op |-> 1, session_id |-> None,
                               seq |-> sequence, id |-> 0]
                    /\ event' = NoEvent
    /\ pc = "hb_reply" =>
            /\ pc' \in {"hb_reply", "running"}
            /\ UNCHANGED <<sequence, frames_read, recv_log, event>>
            /\ Len(event_q') <= Len(event_q)
            /\ IF pc' = "running"
               THEN wire' \in {wire, Append(wire, out)}
               ELSE UNCHANGED <<out, wire>>
    /\ (pc # "hb_reply" /\ pc' = "hb_reply") => event.kind = "HeartbeatRequest"
    /\ \A i \in 1..Len(event_q') : event_q'[i].kind # "HeartbeatRequest"

\* C11: a heartbeat request read on a running connection makes the driver
\* build the frame {op 1, d = the sequence stored at that moment} and go
\* through rate_limited_send with it before read_loop reads anything else:
\* no frame is parsed and the sequence does not change until that write has
\* been made, the frame the socket accepts is that one, and the request is
\* dropped, never put on the event queue.
C11_RepliesBeforeReading == [][C11_RequestStep]_vars

\* the reply to a request that came after a dispatch carrying a sequence was
\* written, and read_loop is reading again
C11_Witness ==
    /\ pc = "running"
    /\ frames_read = 2
    /\ sequence # None
    /\ Len(wire) = 2
    /\ wire[2].op = 1
    /\ wire[2].seq = sequence
    /\ event_q # <<>>

\* ------------------------------------------------------------------------
\* C12
\* ------------------------------------------------------------------------
C12_ResumeStep ==
    \* READY stores the session id and the resume URL it carries
    /\ (pc = "event" /\ event.kind = "Ready" /\ pc' # pc) =>
            /\ session_id' = Some(Unwrap(event.ready).session_id)
            /\ resume_gateway_url' = Some(Unwrap(event.ready).resume_gateway_url)
    \* nothing else replaces them before the next handshake, but for the
    \* session id a disconnect that asks for a new IDENTIFY
    /\ resume_gateway_url' # resume_gateway_url => (pc = "event" /\ event.kind = "Ready")
    /\ session_id' # session_id =>
            \/ pc = "event" /\ event.kind = "Ready"
            \/ pc = "cleanup" /\ disconnect_reason = "ShouldReidentify"
    \* every dial made while a resume URL is stored goes to that URL
    /\ (pc = "connect" /\ pc' # pc /\ resume_gateway_url # None) =>
            LET u == Unwrap(resume_gateway_url) IN
            /\ dialed' = Some([base |-> u.base,
                               query |-> IF \E i \in 1..Len(u.query) : u.query[i] = "v=10"
                                         THEN u.query
                                         ELSE u.query \o <<"v=10", "encoding=json">>])
            /\ Unwrap(dialed').base # "wss://gateway.discord.gg/"
    \* and the handshake on the connection is RESUME with the stored pair
    /\ (pc = "identify" /\ pc' # pc /\ session_id # None /\ sequence # None) =>
            out' = [kind |-> "text", op |-> 6, session_id |-> session_id,
                    seq |-> sequence, id |-> 0]

\* C12: READY stores its session_id S and resume_gateway_url U; from then on
\* every dial the driver makes goes to U (with v=10 and encoding=json
\* appended when U does not contain v=10), never to the default gateway, and
\* unless the session was cleared by a re-identify outcome the handshake on
\* the new connection is RESUME carrying S and the sequence stored at that
\* moment.
C12_ResumesAtResumeUrl == [][C12_ResumeStep]_vars

\* the second connection was dialed at the resume URL of the READY received
\* on the first and RESUME was written on it
C12_Witness ==
    /\ connections = 2
    /\ session_id = Some("S")
    /\ resume_gateway_url = Some([base |-> "wss://resume.example", query |-> <<>>])
    /\ dialed = Some([base |-> "wss://resume.example",
                      query |-> <<"v=10", "encoding=json">>])
    /\ wire = <<[kind |-> "text", op |-> 6, session_id |-> Some("S"), seq |-> Some(1),
                 id |-> 0]>>

\* ------------------------------------------------------------------------
\* Properties of the REST client (checked under SpecRest)
\* ------------------------------------------------------------------------
C13_AttemptStep ==
    \A c \in Callers :
        /\ calls'[c].issued <= 6
        /\ calls'[c].issued <= calls'[c].attempt + 1
        /\ (calls[c].issued = 6 /\ calls[c].pc = "inflight") =>
                calls'[c].pc \in {"inflight", "done"}
        /\ \A resp \in Responses :
                (/\ Respond(c, resp)
                 /\ calls[c].issued = 6
                 /\ resp.status = "RateLimitExceeded"
                 /\ resp.body_ok) =>
                    calls'[c].result = [kind |-> "Api", status |-> 429, body |-> resp.body,
                                        route |-> calls[c].route]

\* C13: a call through request issues at most 6 requests, whatever the
\* server answers; after the 6th the call does not sleep or send again, and
\* when the 6th is answered 429 (and the body of that response can be read)
\* the call returns the API error with status 429, that body and the route.
C13_SixAttempts == [][C13_AttemptStep]_vars

\* a call that was answered 429 six times has returned its error
C13_Witness ==
    /\ calls["a"].pc = "done"
    /\ calls["a"].kind = "request"
    /\ calls["a"].attempt = 5
    /\ calls["a"].issued = 6
    /\ calls["a"].result.kind = "Api"
    /\ calls["a"].result.status = 429

\* the bucket learned for the route has no request left and has not reset
BucketExhausted(route) ==
    /\ limiter.route_buckets[route] # None
    /\ limiter.buckets[Unwrap(limiter.route_buckets[route])] # None
    /\ Unwrap(limiter.buckets[Unwrap(limiter.route_buckets[route])]).remaining = 0
    /\ Unwrap(limiter.buckets[Unwrap(limiter.route_buckets[route])]).resets_at > 0

\* the step in which caller c hands a request to the transport
Issues(c) == calls'[c].issued = calls[c].issued + 1

\* C14: with one caller at a time, no request is issued on a route while the
\* bucket learned for that route has remaining == 0 and a resets_at still in
\* the future, because the pre-flight wait is repeated until the limiter
\* returns no delay.
C14_NoIssueOnExhaustedBucket ==
    [][\A c \in Callers : Issues(c) => ~BucketExhausted(calls[c].route)]_vars

\* the global lockout is set and still in the future
GlobalLockout == limiter.global_until # None /\ Unwrap(limiter.global_until) > 0

\* C15: while the global lockout is set and in the future no request is
\* issued on any route by any caller sharing the client; a call started
\* during the lockout blocks until the lockout has expired.
C15_NoIssueDuringLockout == [][\A c \in Callers : Issues(c) => ~GlobalLockout]_vars

C16_RetryAfterStep ==
    \A c \in Callers :
        /\ \A resp \in Responses :
            (/\ Respond(c, resp)
             /\ resp.status = "RateLimitExceeded"
             /\ resp.headers.retry_after # None) =>
                LET delay == Min(60000, Unwrap(resp.headers.retry_after)) IN
                /\ calls'[c].pc = "retry_wait" => calls'[c].sleep >= delay
                /\ resp.headers.global = Some("true") => limiter'.global_until = Some(delay)
        /\ (calls[c].pc = "inflight" /\ calls'[c].pc = "done" /\ calls[c].attempt = 1
            /\ calls'[c].result.kind = "Ok") => calls[c].issued = 2

\* C16: on a 429 the client waits at least min(60 s, retry_after) before it
\* retries, retry_after being the value of the Retry-After header of the
\* response; when the response is flagged global the lockout is stored as
\* now + that delay; a request answered 429 once and then 2xx has been issued
\* exactly twice.
C16_WaitsRetryAfter == [][C16_RetryAfterStep]_vars

C17_ErrorStep ==
    \A c \in Callers :
        \* an answer that is neither 2xx nor 429 ends the call with the API error
        /\ \A resp \in Responses :
            (/\ Respond(c, resp) \/ RespondUpload(c, resp)
             /\ resp.status \in {"NotFound", "InternalError"}) =>
                /\ calls'[c].pc = "done"
                /\ calls'[c].issued = calls[c].issued
                /\ calls'[c].result =
                        IF resp.body_ok
                        THEN [kind |-> "Api",
                              status |-> IF resp.status = "NotFound" THEN 404 ELSE 500,
                              body |-> resp.body,
                              route |-> calls[c].route]
                        ELSE [kind |-> "Transport", status |-> 0, body |-> "", route |-> ""]
        \* a send that fails ends the call with the transport error
        /\ Send(c, "transport") =>
                /\ calls'[c].pc = "done"
                /\ calls'[c].result.kind = "Transport"
        \* and a call that has its result issues nothing more
        /\ calls[c].pc = "done" =>
                /\ calls'[c].pc \in {"done", "idle"}
                /\ calls'[c].pc = "done" => calls'[c] = calls[c]

\* C17: a response whose status is neither 2xx nor 429 is not retried: the
\* call returns at once with the API error carrying the numeric status, the
\* body of the response and the route key; a failure of the transport, when
\* sending or when reading the body, returns the transport error, and the
\* call issues no further request.
C17_ErrorsNotRetried == [][C17_ErrorStep]_vars

\* a first attempt answered 404 has returned the error with body and route
C17_Witness ==
    /\ calls["a"].pc = "done"
    /\ calls["a"].issued = 1
    /\ calls["a"].result = [kind |-> "Api", status |-> 404, body |-> "{\"code\":0}",
                            route |-> "GET /guilds/7"]

\* the pre-flight consult of caller c
Consults(c) == calls[c].pc = "preflight" /\ calls'[c].pc # "preflight"

\* the limiter gives a delay exactly in the two cases
C18_DelayIff ==
    \A c \in Callers :
        Consults(c) =>
            (calls'[c].pc = "wait" <=> (GlobalLockout \/ BucketExhausted(calls[c].route)))

\* on an exhausted bucket the call waits for the whole time left to resets_at
C18_WaitsUntilReset ==
    \A c \in Callers :
        (Consults(c) /\ ~GlobalLockout /\ BucketExhausted(calls[c].route)) =>
            calls'[c].sleep =
                Unwrap(limiter.buckets[Unwrap(limiter.route_buckets[calls[c].route])]).resets_at

\* C18: the limiter returns a pre-flight delay for a route if and only if
\* the global lockout is in the future or the bucket learned for the route
\* has remaining == 0 with resets_at in the future; so a route with no
\* learned bucket, or whose bucket has requests left, is issued without
\* waiting, and after a response reporting remaining == 0 the next call on
\* the route waits until resets_at.
C18_DelayWhenExhausted == [][C18_DelayIff /\ C18_WaitsUntilReset]_vars

C19_UploadStep ==
    \A c \in Callers, resp \in Responses :
        (RespondUpload(c, resp) /\ resp.status = "RateLimitExceeded") =>
            LET delay == Min(60000, IF resp.headers.reset_after = None
                                    THEN 1000
                                    ELSE Unwrap(resp.headers.reset_after))
            IN  /\ resp.headers.global = Some("true") =>
                        limiter'.global_until = Some(delay)
                /\ IF calls[c].attempt < 5
                   THEN calls'[c].pc = "retry_wait" /\ calls'[c].sleep = delay
                   ELSE calls'[c].pc = "done" /\
                        (resp.body_ok => (calls'[c].result.kind = "Api" /\
                                          calls'[c].result.status = 429))

\* C19: a file upload takes the rate-limit path of a JSON request: after the
\* pre-flight wait and the update of the limiter, a 429 stores the global
\* lockout when flagged and the upload is retried, up to 5 times, before the
\* API error with status 429 is returned.
C19_UploadRetries == [][C19_UploadStep]_vars

\* ------------------------------------------------------------------------
\* Properties of the heartbeat cadence (checked under SpecHeartbeat)
\* ------------------------------------------------------------------------
\* the time between the i-th heartbeat written on the connection and the next
BeatGap(i) == beats[i].age - beats[i + 1].age

\* C20 as stated: any two successive heartbeat sends on a connection (op 1
\* frames written by the driver, with no disconnect in between) are
\* heartbeat_interval apart, within a tolerance of 50 ms.
C20_AllBeatsOnCadence ==
    \A i \in 1..(Len(beats) - 1) :
        /\ BeatGap(i) >= heartbeat_interval - 50
        /\ BeatGap(i) <= heartbeat_interval + 50

\* C20: two successive heartbeats of the heartbeat task on a connection are
\* heartbeat_interval apart as long as the send budget has made no heartbeat
\* of the connection wait; the heartbeats read_loop writes in reply to a
\* request of the gateway come in between and leave that cadence as it is.
C20_TaskCadence ==
    \A i, j \in DOMAIN beats :
        (/\ i < j
         /\ beats[i].by = "task"
         /\ beats[j].by = "task"
         /\ \A k \in (i + 1)..(j - 1) : beats[k].by = "reply"
         /\ \A k \in 1..j : beats[k].late = 0) =>
            beats[i].age - beats[j].age = 41250

\* two heartbeats of the task one interval apart, with a requested heartbeat
\* written in between, right after the first
C20_Witness ==
    /\ Len(beats) = 3
    /\ beats[1].by = "task"
    /\ beats[2].by = "reply"
    /\ beats[3].by = "task"
    /\ beats[1].age - beats[2].age = 0
    /\ beats[1].age - beats[3].age = 41250
    /\ heartbeat_interval = 41250

\* ------------------------------------------------------------------------
\* Properties of the reconnect back-off (checked under SpecBackoff)
\* ------------------------------------------------------------------------
\* min(60 s, 1 s * 2^min(k, 6)) in milliseconds
C21_Nominal(k) == IF k >= 6 THEN 60000 ELSE 1000 * 2^k

\* the smallest and the largest back-off the draws give for attempt k
C21_Smallest(k) ==
    CHOOSE d \in {backoff_delay(k, r) : r \in JitterDraws} :
        \A r \in JitterDraws : d <= backoff_delay(k, r)
C21_Largest(k) ==
    CHOOSE d \in {backoff_delay(k, r) : r \in JitterDraws} :
        \A r \in JitterDraws : d >= backoff_delay(k, r)

\* C21: the back-off for attempt k >= 1 lies between 0.75 and 1.25 times
\* min(60 s, 1 s * 2^min(k, 6)) and never exceeds 60 s, and the smallest and
\* the largest back-off possible for attempt k + 1 are at least those for
\* attempt k.
C21_BackoffBounds ==
    (probe.fn = "backoff_delay" /\ probe.out # <<>>) =>
        LET k == probe.args[1]
            d == probe.out[1]
        IN  /\ 4 * d >= 3 * C21_Nominal(k)
            /\ 4 * d <= 5 * C21_Nominal(k)
            /\ d <= 60000
            /\ C21_Smallest(k + 1) >= C21_Smallest(k)
            /\ C21_Largest(k + 1) >= C21_Largest(k)

\* attempt 6 with the largest draw: 1.249 * 64 s, cut to the cap
C21_Witness ==
    /\ probe.fn = "backoff_delay"
    /\ probe.args = <<6, 999>>
    /\ probe.out = <<60000>>

\* ------------------------------------------------------------------------
\* Properties of a connection at work (checked under SpecConnection)
\* ------------------------------------------------------------------------
C22_FirstFrameStep ==
    /\ \A h \in HelloResults :
            ReadHello(h, 0) =>
                IF h.why = "hello" /\ h.waited < 30000
                THEN pc' = "identify" /\ heartbeat_interval' = h.interval
                ELSE pc' = "backoff"
    /\ pc = "hello" => (wire = <<>> /\ wire' = <<>> /\ hb_pc' = "off")
    /\ pc' = "identify" => wire' = <<>>
    /\ (wire = <<>> /\ wire' # <<>>) =>
            /\ Len(wire') = 1
            /\ wire'[1].op \in {2, 6}
            /\ pc = "handshake"
    /\ wire # <<>> => (wire' = <<>> \/ wire'[1] = wire[1])

\* C22: on every connection the first frame read must be HELLO (op 10 with
\* heartbeat_interval) and must come within 30 s, otherwise the attempt ends
\* with nothing written on the connection; the first frame the driver writes
\* on a connection is its IDENTIFY or RESUME, so no heartbeat and no consumer
\* payload is written before it.
C22_HelloThenHandshake == [][C22_FirstFrameStep]_vars

\* IDENTIFY, then a payload the consumer had submitted before the connection
\* was made, then a periodic heartbeat
C22_Witness ==
    /\ Len(wire) = 3
    /\ wire[1].op = 2
    /\ wire[2].op = 3
    /\ wire[3].op = 1
    /\ connections = 1

\* ------------------------------------------------------------------------
\* Properties of the reconnect counter (checked under SpecAttempts and Spec)
\* ------------------------------------------------------------------------
\* C23: an attempt that fails at HELLO or at the handshake write counts
\* against the reconnect budget like one that fails at the dial: while the
\* driver backs off the counter is at least the number of attempts that failed
\* in a row, and the driver has terminated once more than
\* MAX_RECONNECT_ATTEMPTS attempts have failed in a row.
C23_FailuresCounted ==
    /\ pc = "backoff" => reconnect_attempts >= attempts_failed
    /\ attempts_failed > 8 => pc = "done"

C24_ResetStep ==
    /\ (pc = "connect" /\ pc' = "hello") => reconnect_attempts' = 0
    /\ pc' \in {"hello", "identify", "handshake", "running", "event", "forward",
                "hb_reply", "payload", "invalid_wait", "cleanup"} => reconnect_attempts' = 0
    /\ (pc = "cleanup" /\ pc' # "cleanup") =>
            \/ pc' = "done" /\ disconnect_reason \in {"Fatal", "EventChannelClosed"}
            \/ pc' = "backoff" /\ reconnect_attempts' = 1 /\ sleep' \in 1500..2500

\* C24: every successful dial resets the counter of consecutive failures to
\* 0 and it stays 0 while the connection lasts, so the back-off after the loss
\* of an established connection is the one of attempt 1 (0.75 to 1.25 times
\* 2 s), whatever the counter was before the dial.
C24_ResetOnConnect == [][C24_ResetStep]_vars

\* backing off for attempt 1 after the loss of the second connection, which
\* was dialed with the counter at 1 or more
C24_Witness ==
    /\ pc = "backoff"
    /\ connections = 2
    /\ reconnect_attempts = 1
    /\ sleep = 2499
    /\ disconnect_reason = "ShouldReidentify"

C25_WriteFailureStep ==
    /\ WritePayload(FALSE) => (pc' = "cleanup" /\ disconnect_reason' = "ShouldResume")
    /\ WriteHeartbeatReply(FALSE) => (pc' = "cleanup" /\ disconnect_reason' = "ShouldResume")
    /\ (HbWrite(FALSE) /\ pc = "running") =>
            (pc' = "cleanup" /\ disconnect_reason' = "ShouldResume")

\* C25: a write that fails on a running connection, be it of a consumer
\* payload, of a requested heartbeat or of a periodic heartbeat, ends the read
\* loop with the resume outcome.
C25_WriteFailureResumes == [][C25_WriteFailureStep]_vars

\* ------------------------------------------------------------------------
\* Properties of the event queue under load (checked under SpecFlood)
\* ------------------------------------------------------------------------
C26_BackPressureStep ==
    /\ Len(event_q') <= 256
    /\ (pc = "forward" /\ Len(event_q) = 256 /\ ~rx_closed) =>
            /\ frames_read' = frames_read
            /\ event' = event
            /\ pc' = "forward"
            /\ event_q' # event_q => event_q' = Tail(event_q)
    /\ (pc = "forward" /\ pc' # "forward" /\ ~rx_closed) =>
            /\ Len(event_q') = Len(event_q) + 1
            /\ event_q'[Len(event_q')].id = event.id
            /\ SubSeq(event_q', 1, Len(event_q)) = event_q

\* C26: while the event queue holds 256 events the driver, with an event to
\* forward, reads no further frame and keeps that event until the consumer
\* has removed one; the event is then appended, not dropped, and the queue
\* never holds more than 256 events.
C26_BackPressure == [][C26_BackPressureStep]_vars

\* 257 frames read, the consumer has taken one event and the 257th event has
\* entered the queue, which is full again
C26_Witness ==
    /\ frames_read = 257
    /\ Len(delivered) = 1
    /\ Len(event_q) = 256
    /\ event_q[256].id = 257
    /\ pc = "running"
    /\ ~rx_closed

\* ------------------------------------------------------------------------
\* Properties of malformed frames (checked under SpecFrames)
\* ------------------------------------------------------------------------
\* a text that is no gateway payload: not JSON, op missing or not a u8, or s
\* of the wrong type
C27_Invalid(text) ==
    \/ ~text.json
    \/ text.op.is # "number"
    \/ text.op.n < 0
    \/ text.op.n > 255
    \/ text.s.is = "string"

C27_IgnoreStep ==
    \A text \in TextSamples :
        (C27_Invalid(text) /\ ReadRaw(text)) =>
            /\ pc' = "running"
            /\ ignored' # ignored
            /\ UNCHANGED <<driver_vars, session_vars, channel_vars, hb_vars, wire, recv_log,
                           delivered, frames_read, connections>>

\* C27: a text frame that is not a valid gateway payload is skipped on its
\* own: the connection stays in the running state, session_id and the
\* sequence are unchanged, nothing is forwarded and nothing else changes
\* either, so the frames that follow are handled as if it had not come.
C27_MalformedIgnored == [][C27_IgnoreStep]_vars

\* a malformed frame was skipped first; the dispatch with s = 1 that followed
\* it was parsed, stored as the sequence and forwarded
C27_Witness ==
    /\ ignored = <<0>>
    /\ frames_read = 1
    /\ sequence = {1}
    /\ Len(event_q) = 1
    /\ pc = "running"

\* ------------------------------------------------------------------------
\* Properties of the first heartbeat (checked under SpecHeartbeat)
\* ------------------------------------------------------------------------
\* C28: the first periodic heartbeat of a connection is written after the
\* initial delay of heartbeat_interval * jitter, jitter in [0, 1), that is
\* less than heartbeat_interval after the heartbeat task has started, and it
\* carries the sequence stored at that moment.
C28_FirstBeatWithinInterval ==
    \A i \in DOMAIN beats :
        (beats[i].by = "task" /\ \A k \in 1..(i - 1) : beats[k].by # "task") =>
            hb_age - beats[i].age < heartbeat_interval

C29_CancelStep ==
    /\ (pc = "cleanup" /\ pc' # "cleanup") => hb_pc' = "off"
    /\ pc \in {"backoff", "connect", "hello", "identify", "handshake", "done"} =>
            /\ hb_pc = "off"
            /\ UNCHANGED <<heartbeats, hb_seq, hb_timer>>
            /\ wire' # wire => wire'[Len(wire')].op # 1
    /\ (hb_pc' = "first" /\ hb_pc # "first") =>
            (hb_pc = "off" /\ pc = "handshake" /\ pc' = "running")

\* C29: when the driver leaves a connection whose read loop has ended,
\* whatever the outcome, the heartbeat task of that connection is gone and
\* no heartbeat is written from then on until the next connection has spawned
\* its own; a task is spawned only when none is alive, so there is never more
\* than one.
C29_HeartbeatCancelled == [][C29_CancelStep]_vars

\* the task of the first connection had ticked and was cancelled; the task
\* of the second connection is now the only one
C29_Witness ==
    /\ connections = 2
    /\ heartbeats = 2
    /\ hb_pc = "gate"
    /\ pc = "running"
    /\ Len(wire) = 1

\* ------------------------------------------------------------------------
\* Properties of the mutexes (checked under SpecLocks)
\* ------------------------------------------------------------------------
\* the mutexes over SessionState, the send budget and the REST rate limiter
ShortLocks == {"session", "send_budget", "rate_limiter"}

\* C30: a task that is suspended in an await (on network I/O, a sleep, a
\* bounded queue, or a mutex another task holds) holds no guard of the
\* session state, the gateway send budget or the REST rate limiter.
C30_NoSuspensionUnderLock ==
    \A t \in Tasks : Suspended(t) => Held(t) \cap ShortLocks = {}

\* the driver sleeps in the wait loop of rate_limited_send while the
\* heartbeat task holds the send budget the driver read a moment before, and
\* a caller sleeps after the REST limiter told it to
C30_Witness ==
    /\ threads["driver"].at = "await"
    /\ NextStep("driver") = Await("sleep")
    /\ threads["driver"].code[2] = Lock("send_budget")
    /\ owner["send_budget"] = Some("heartbeat")
    /\ threads["caller"].at = "await"
    /\ NextStep("caller") = Await("sleep")
    /\ owner["rate_limiter"] = None

\* ------------------------------------------------------------------------
\* Properties of the send budget between senders (checked under SpecShared)
\* ------------------------------------------------------------------------
\* C31: the budget of a connection is shared by its senders: the limiter of
\* the connection never holds more than 120 sends recorded inside the last
\* 60 seconds, so of two senders at the gate with 119 in the window only one
\* records before the oldest ages out.
C31_SharedBudget == Cardinality(InWindow(timestamps)) <= SEND_BUDGET_MAX

\* ------------------------------------------------------------------------
\* Frame properties of the session state (checked under Spec)
\* ------------------------------------------------------------------------
\* the step is read_loop handling a READY
C32_OnReady == pc = "event" /\ event.kind = "Ready"

\* the step is the driver's match on a re-identify outcome
C32_OnReidentify == pc = "cleanup" /\ disconnect_reason = "ShouldReidentify"

C32_SessionStep ==
    /\ session_id' # session_id =>
            \/ C32_OnReady /\ session_id' = Some(Unwrap(event.ready).session_id)
            \/ C32_OnReidentify /\ session_id' = None
    /\ resume_gateway_url' # resume_gateway_url =>
            /\ C32_OnReady
            /\ resume_gateway_url' = Some(Unwrap(event.ready).resume_gateway_url)
    /\ (sequence' # sequence /\ sequence' = None) => C32_OnReidentify

\* C32: session_id and resume_gateway_url take a value only in the step that
\* handles a READY dispatch, and session_id and sequence are cleared only in
\* the step that follows a re-identify outcome; no other step of the driver
\* sets session_id or resume_gateway_url or clears any of the three.
C32_SessionFrame == [][C32_SessionStep]_vars

\* backing off after a dial that failed, the session of the connection
\* before still stored in full
C32_Witness ==
    /\ pc = "backoff"
    /\ dials_failed > 0
    /\ connections > 0
    /\ session_id = Some("S")
    /\ IsSome(sequence)
    /\ IsSome(resume_gateway_url)

\* ------------------------------------------------------------------------
\* Properties of the URL dialed (checked under Spec)
\* ------------------------------------------------------------------------
\* C33: the URL given to connect_async is the stored resume URL when there
\* is one, else the default gateway URL, with its query string kept, and it
\* carries both v=10 and encoding=json.
C33_DialedCarriesBoth ==
    dialed # None =>
        /\ Contains(Unwrap(dialed), "v=10")
        /\ Contains(Unwrap(dialed), "encoding=json")

\* ------------------------------------------------------------------------
\* Properties of the limiter's updates (checked under SpecRest)
\* ------------------------------------------------------------------------
\* the bucket state a response's headers describe
C34_BucketOf(h) ==
    [remaining |-> IF h.remaining = None THEN 1 ELSE Unwrap(h.remaining),
     resets_at |-> IF h.reset_after = None
                   THEN DEFAULT_RESET_AFTER
                   ELSE Unwrap(h.reset_after)]

C34_UpdateStep ==
    \A c \in Callers, resp \in Responses :
        (Respond(c, resp) \/ RespondUpload(c, resp)) =>
            /\ resp.headers.bucket # None =>
                    /\ limiter'.route_buckets[calls[c].route] = resp.headers.bucket
                    /\ limiter'.buckets[Unwrap(resp.headers.bucket)]
                            = Some(C34_BucketOf(resp.headers))
            /\ resp.headers.bucket = None =>
                    /\ limiter'.route_buckets = limiter.route_buckets
                    /\ limiter'.buckets = limiter.buckets

\* C34: every response a call receives, whatever its status and whether or
\* not its body can then be read, leaves the limiter with the route mapped to
\* the bucket its headers name and that bucket in the state they give (and
\* with both unchanged when they name no bucket).
C34_UpdatedOnEveryResponse == [][C34_UpdateStep]_vars

\* the first call was answered 404 with an exhausted bucket in its headers:
\* it returned the API error and the limiter holds the bucket
C34_Witness ==
    \E c \in Callers :
        /\ calls[c].pc = "done"
        /\ calls[c].result.kind = "Api"
        /\ calls[c].result.status = 404
        /\ calls_started = 1
        /\ limiter.route_buckets[calls[c].route] = Some("abc")
        /\ limiter.buckets["abc"] = Some([remaining |-> 0, resets_at |-> 2000])

\* ------------------------------------------------------------------------
\* Properties of count_messages (checked under SpecCount)
\* ------------------------------------------------------------------------
\* C35: count_messages makes at most 100 page requests and returns at most
\* 10 000; it asks for a page only after full pages of 100, the first without
\* a cursor and every later one with before = the id of the last message of
\* the page before it; a page of fewer than 100 ends it, and once a page has
\* failed the result is the error, with no count.
C35_CountMessages ==
    probe.fn = "count_messages" =>
        /\ probe.pages <= 100
        /\ probe.seen.n <= probe.pages
        /\ probe.seen.full_before
        /\ probe.asked # None =>
                /\ probe.seen.last # None =>
                        (Unwrap(probe.seen.last).ok /\ Unwrap(probe.seen.last).len = 100)
                /\ Unwrap(probe.asked) =
                        [limit |-> 100,
                         before |-> IF probe.seen.last = None
                                    THEN None
                                    ELSE Unwrap(probe.seen.last).last]
        /\ (probe.seen.last # None /\ Unwrap(probe.seen.last).len < 100) =>
                probe.pc = "done"
        /\ probe.pc = "done" =>
                /\ probe.out # <<>>
                /\ probe.out[1].count <= 10000
                /\ probe.out[1].ok <=> Unwrap(probe.seen.last).ok
                /\ ~probe.out[1].ok => probe.out[1].count = 0

\* the 100th page was full as well: the loop ended on its own with 10 000
C35_Witness ==
    /\ probe.fn = "count_messages"
    /\ probe.pc = "done"
    /\ probe.pages = 100
    /\ probe.out = <<[ok |-> TRUE, count |-> 10000]>>
    /\ Unwrap(probe.seen.last).len = 100

\* ------------------------------------------------------------------------
\* Properties of the route keys (checked under SpecRoutes)
\* ------------------------------------------------------------------------
\* the major parameters of a method: the channel id, the guild id, and the
\* webhook id and token, which in the path webhooks/{}/{} of
\* edit_original_interaction_response are the application id and the
\* interaction token
C36_Major(method) ==
    {"channel_id", "guild_id"}
        \cup (IF method = "edit_original_interaction_response"
              THEN {"application_id", "interaction_token"}
              ELSE {})

\* the two requests agree on every major parameter of their method
C36_SameMajors(a, b) ==
    \A i \in 1..Len(MethodParams[a.method]) :
        MethodParams[a.method][i] \in C36_Major(a.method) => a.args[i] = b.args[i]

\* C36: two requests of one high-level method use the same route key if and
\* only if they agree on every major parameter (channel id, guild id,
\* webhook id and token): a difference in the query string or in another
\* path segment does not change the key, a difference in a major parameter
\* does.
C36_RouteKeys ==
    (probe.fn = "route_key" /\ probe.out # <<>>) =>
        (probe.out[1] = probe.out[2] <=> C36_SameMajors(probe.args[1], probe.args[2]))

\* ------------------------------------------------------------------------
\* Properties of a bucket shared by two routes (checked under SpecBuckets)
\* ------------------------------------------------------------------------
\* responses have named one bucket for route and for another route
C37_SharesBucket(route) ==
    \E other \in Routes \ {route} :
        /\ limiter.route_buckets[route] # None
        /\ limiter.route_buckets[other] = limiter.route_buckets[route]

\* the call consulting the limiter has gone on to its request, and its route
\* is in a bucket with another route
C37_IssuesShared(c) ==
    /\ calls[c].pc \in {"preflight", "wait"}
    /\ calls'[c].pc = "send"
    /\ C37_SharesBucket(calls[c].route)

\* C37: two routes for which responses named the same bucket id share one
\* bucket state: once a response on either has reported remaining == 0, a
\* call on the other goes on to its request only when resets_at has been
\* reached.
C37_SharedBucketDelays ==
    [][\A c \in Callers : C37_IssuesShared(c) => ~BucketExhausted(calls[c].route)']_vars

\* ------------------------------------------------------------------------
\* Properties of the connection after a re-identify outcome (checked under Spec)
\* ------------------------------------------------------------------------
\* the last connection ended with a re-identify outcome and a resume URL is stored
C38_AfterReidentify == disconnect_reason = "ShouldReidentify" /\ resume_gateway_url # None

C38_ReidentifyStep ==
    \* the outcome clears the session id and the sequence and keeps the URL
    /\ (pc = "cleanup" /\ disconnect_reason = "ShouldReidentify" /\ pc' # pc) =>
            /\ session_id' = None
            /\ sequence' = None
            /\ resume_gateway_url' = resume_gateway_url
    \* every dial that follows goes to the stored URL
    /\ (pc = "connect" /\ pc' # pc /\ C38_AfterReidentify) =>
            /\ dialed' # None
            /\ Unwrap(dialed').base = Unwrap(resume_gateway_url).base
            /\ Unwrap(dialed').base # "wss://gateway.discord.gg/"
    \* and the handshake written on that connection is IDENTIFY
    /\ (pc = "handshake" /\ wire' # wire /\ C38_AfterReidentify) =>
            /\ wire' = <<[kind |-> "text", op |-> 2, session_id |-> None, seq |-> None,
                          id |-> 0]>>
            /\ Unwrap(dialed).base = Unwrap(resume_gateway_url).base

\* C38: a re-identify outcome clears session_id and sequence and leaves
\* resume_gateway_url as it is, so the connection on which the new IDENTIFY
\* is written was dialed at the stored resume URL, not at the default
\* gateway URL.
C38_ReidentifyKeepsUrl == [][C38_ReidentifyStep]_vars

\* the second connection, established after a re-identify outcome at the
\* resume URL of the session that was cleared
C38_Witness ==
    /\ pc = "hello"
    /\ connections = 2
    /\ disconnect_reason = "ShouldReidentify"
    /\ session_id = None
    /\ sequence = None
    /\ resume_gateway_url = Some([base |-> "wss://resume.example", query |-> <<>>])
    /\ dialed = Some([base |-> "wss://resume.example",
                      query |-> <<"v=10", "encoding=json">>])

\* ------------------------------------------------------------------------
\* Properties of the send queue while the driver is blocked (checked under
\* SpecBlocked)
\* ------------------------------------------------------------------------
\* the driver has an event to forward and the event queue is full
C39_Blocked == pc = "forward" /\ Len(event_q) = 256 /\ ~rx_closed

C39_BlockedStep ==
    C39_Blocked =>
        \* nothing leaves the send queue: it keeps its payloads, in order,
        \* and may take one more at its end
        /\ Len(send_q') >= Len(send_q)
        /\ SubSeq(send_q', 1, Len(send_q)) = send_q
        \* no payload is handed to rate_limited_send or written
        /\ out' = out
        /\ written' = written
        /\ wire' = wire
        \* and the driver stays at the forward: only the consumer, by taking
        \* an event, ends the blocked state
        /\ pc' = "forward"
        /\ event' = event
        /\ Len(event_q') < 256 => event_q' = Tail(event_q)

\* C39: while the driver is blocked forwarding an event to the full event
\* queue, no payload is dequeued from the send queue or written: payloads
\* submitted meanwhile are appended and stay queued in their order.
C39_NoDequeueWhileBlocked == [][C39_BlockedStep]_vars

\* two payloads submitted and still queued, in order, behind a driver that
\* is blocked on the full event queue
C39_Witness ==
    /\ pc = "forward"
    /\ Len(event_q) = 256
    /\ send_q = <<1, 2>>
    /\ written = <<>>
    /\ frames_read = 257

\* ------------------------------------------------------------------------
\* Properties of the limiter between responses (checked under SpecBuckets)
\* ------------------------------------------------------------------------
\* a caller's response arrives in this step
C40_ResponseReceived ==
    \E c \in Callers : calls[c].pc = "inflight" /\ calls'[c].pc # "inflight"

\* a stored Instant is the same Instant after the step: as a time from now
\* it has not grown, and it is absent exactly when it was absent
C40_SameInstant(before, after) ==
    /\ (after = None) <=> (before = None)
    /\ before # None => Unwrap(after) <= Unwrap(before)

C40_LimiterKept ==
    /\ limiter'.route_buckets = limiter.route_buckets
    /\ \A b \in BucketIds :
          /\ (limiter'.buckets[b] = None) <=> (limiter.buckets[b] = None)
          /\ limiter.buckets[b] # None =>
                /\ Unwrap(limiter'.buckets[b]).remaining = Unwrap(limiter.buckets[b]).remaining
                /\ Unwrap(limiter'.buckets[b]).resets_at <= Unwrap(limiter.buckets[b]).resets_at
    /\ C40_SameInstant(limiter.global_until, limiter'.global_until)

\* C40: a step in which no response is received (a call starting, the look
\* at the limiter, the end of a sleep, the issue of a request, a return)
\* leaves the limiter's route-to-bucket map, every bucket's remaining and
\* reset Instant and the global lockout as they were; in particular issuing
\* a request does not decrement remaining.
C40_ChangesOnlyOnResponse == [][~C40_ResponseReceived => C40_LimiterKept]_vars

\* both callers have issued a request on a route of bucket abc since the
\* response that stored remaining 4, and the bucket still says 4
C40_Witness ==
    /\ \A c \in Callers : calls[c].pc = "inflight" /\ calls[c].issued > 0
    /\ \A c \in Callers : limiter.route_buckets[calls[c].route] = Some("abc")
    /\ limiter.buckets["abc"] # None
    /\ Unwrap(limiter.buckets["abc"]).remaining = 4

====
